---------------------------- MODULE Spec2Model ----------------------------
(***************************************************************************)
(* Cross-process coordination layer of talkback: the play.lock playback    *)
(* lock, the queue.json priority queue and the drain loop of processQueue. *)
(* Every CLI invocation is one OS process; processes share nothing but     *)
(* the files, so each file access of a handler is one step of the process. *)
(***************************************************************************)
EXTENDS Integers, Sequences, FiniteSets, TLC

\* ------------------------------------------------------------------ bounds
NumProcs == 3
MaxAttempts == 3
MaxEnq == 5
MaxPreload == 3

Procs == 1 .. NumProcs

\* The concurrent invocations of speak on the queued path, and the priorities
\* they are given: a pair, since the races of the protocol are between one
\* enqueuer and one holder, or between two acquirers.
Speakers == {1, 2}

SpeakPriorities == {"critical", "none"}

\* ------------------------------------------------------ program constants
\* PRIORITY_ORDER; an entry without a priority ("none") counts as normal.
Priorities == {"critical", "high", "normal", "low", "none"}

PRIORITY_ORDER(pri) ==
    CASE pri = "critical" -> 0
      [] pri = "high" -> 1
      [] pri = "normal" -> 2
      [] pri = "low" -> 3
      [] pri = "none" -> 2

VARIABLES
    pc,         \* position of each process in its invocation
    marker,     \* play.lock: its creator (0: no file) and whether the pid is written
    attempts,   \* exclusive creations tried by the current acquirePlaybackLock call
    seen,       \* pid isLockStale parsed from play.lock (0: no file, or not a number)
    unlinkErr,  \* whether the process's last removal of play.lock failed or was skipped
    lockHandle, \* whether the module's lockHandle holds an open file handle
    fsFaulty,   \* whether the filesystem may answer with errors other than EEXIST/ENOENT
    qkind,      \* what queue.json holds: a JSON array, other JSON, or no JSON at all
    qfile,      \* the elements of the array in queue.json (<<>> when it holds none)
    lq,         \* the queue array a process holds between its read and its write
    msg,        \* the message the drain loop is servicing
    fallbackOn, \* config.localFallback and a local TTS engine is installed
    lockResult, \* observer: what acquirePlaybackLock returned to the process
    tookBy,     \* observer: ids of the entries takeFromQueue returned to the process
    played,     \* observer: ids of the entries whose audio playAudio played
    failed,     \* observer: ids of the entries whose synthesis or playback threw
    errors,     \* observer: console.error calls of the drain loop
    aborted,    \* observer: an exception left the drain loop
    startKind,  \* observer: what play.lock held when the call began
    enqLog,     \* observer: entries in the order addToQueue was called
    deqLog,     \* observer: entries in the order takeFromQueue returned them
    locks,      \* the voice markers: what <voice>.lock holds for each voice
    shellAlive, \* whether each session's shell process exists
    vcall,      \* observer: the last whole call of the voice API, with its answer
    vpc,        \* position of each session's CLI process inside reserveVoice
    vi,         \* index in VOICE_NAMES of the voice that process is at
    vseen,      \* the marker readLock last returned to that process
    vret,       \* observer: what reserveVoice returned to that process
    cfiles,     \* the cache directory: bytes and mtime of each entry's .mp3 file
    now,        \* the clock Date.now() and the file mtimes are read from, in days
    cclean,     \* the cleanupCache pass in flight: its position, fileInfos, now
    cget,       \* the getFromCache call in flight or returned, with its answer
    clast,      \* observer: the cache call that began last
    cstored,    \* observer: the keys saveToCache was ever called with
    cdir,       \* whether the cache directory exists
    cout,       \* observer: the last clearCache and getCacheStats calls, with their answers
    opt,        \* the options of each speak invocation, once speak has read them
    quietCfg,   \* what quiet.json holds: enabled, and the time ranges
    clock,      \* the local time of day, in minutes
    playing,    \* the processes inside a playback call that lasts
    wrote,      \* observer: whether addToQueue has written the invocation's entry
    acqCalls,   \* observer: the acquirePlaybackLock calls of the invocation
    sounded,    \* observer: whether the invocation has started any playback
    spoke,      \* observer: each entry the drain loop voiced, with the text voiced
    kreq,       \* two requests for speech: text, voice id, speed, whisper
    kout,       \* the names of the cache files the two requests map to
    sv,         \* the drain loop of one holder: its position, message and audio
    slog        \* observer: what the drain loop did for each message it took

lockVars == <<marker, attempts, seen, unlinkErr, lockHandle>>
queueVars == <<qkind, qfile, lq, msg>>
drainObs == <<tookBy, played, failed, errors, aborted>>
seqObs == <<enqLog, deqLog>>
voiceVars == <<locks, shellAlive, vcall, vpc, vi, vseen, vret>>
callObs == <<wrote, acqCalls, sounded, spoke>>
speakVars == <<pc, lockVars, fsFaulty, queueVars, fallbackOn, lockResult, drainObs, startKind,
               seqObs, callObs>>
cacheVars == <<cfiles, now, cclean, cget, clast, cstored, cdir, cout>>
frontVars == <<opt, quietCfg, clock, playing>>
pureVars == <<kreq, kout>>
serviceVars == <<sv, slog>>
sideVars == <<frontVars, pureVars, serviceVars>>
vars == <<speakVars, voiceVars, sideVars, cacheVars, sideVars>>

NoMarker == [creator |-> 0, written |-> FALSE]

NoMsg == [id |-> 0, pri |-> "none"]

\* A process is alive from its launch until it returns from speak or is killed.
Alive(p) == pc[p] \notin {"done", "denied", "crashed", "rejected", "quiet", "exited", "returned"}

\* Two broken liveness probes: one reports every pid dead, one every pid alive.
ProcessAliveNever(pid) == FALSE

ProcessAliveAlways(pid) == TRUE

\* process.kill(pid, 0) of isLockStale: succeeds iff the process exists.
ProcessAlive(pid) == Alive(pid)

InAcquire(p) == pc[p] \in {"open", "writepid", "readlock", "probe", "unlink"}

\* Inside the try block of processQueue: acquired, releasePlaybackLock not yet run.
Holding(p) ==
    pc[p] \in {"holding", "take_trunc", "take_write", "service", "fallback", "release"}

\* What play.lock holds, as a later acquirer would judge it.
MarkerKind ==
    IF marker.creator = 0 THEN "none"
    ELSE IF ~marker.written THEN "empty"
    ELSE IF Alive(marker.creator) THEN "live"
    ELSE "dead"

\* processQueue without its early return: the drain loop is entered whatever
\* acquirePlaybackLock returned.
AfterAcquireAlwaysDrains(result) == "holding"

\* processQueue: a false acquirePlaybackLock returns at once, a true one enters
\* the drain loop.
AfterAcquire(result) == IF result THEN "holding" ELSE "denied"

\* ------------------------------------------------------------- voice markers
\* VOICE_NAMES, the keys of US_VOICES in their order.
VOICE_NAMES == <<"alex", "sam", "jordan", "casey", "morgan">>

VoiceSet == {VOICE_NAMES[i] : i \in 1 .. Len(VOICE_NAMES)}

\* The interactive sessions: each is a shell whose pid is its number, and
\* every CLI process is a short-lived child of one of them.
Shells == {1, 2}

\* Values of new Date().toISOString(): one instant stands for all.
Times == {"t1"}

\* No <voice>.lock file (readLock returns null).
NoLock == [pid |-> 0, at |-> "never"]

\* An absent argument or environment variable.
Undefined == "<undefined>"

\* Names releaseVoice is called with, and values of TALKBACK_VOICE.
ArgNames == VoiceSet \cup {"ALEX", "Sam", "bob", "", Undefined}

EnvNames == {"sam", "bob", Undefined}

\* String.prototype.toLowerCase on the names above.
ToLowerCase(n) ==
    CASE n = "ALEX" -> "alex"
      [] n = "Sam" -> "sam"
      [] OTHER -> n

\* A reserveVoice that records the pid of the CLI process itself, which is
\* gone as soon as the command returns.
OwnPid(s) == s + 10

\* process.ppid of a CLI process of session s: the shell.
ParentPid(s) == s

\* isProcessAlive(pid): process.kill(pid, 0) succeeds iff the process exists.
IsProcessAlive(pid) == pid \in Shells /\ shellAlive[pid]

\* A marker whose recorded owner is gone.
IsStale(lock) == lock.pid # 0 /\ ~IsProcessAlive(lock.pid)

\* A statuses entry for a voice that is free.
Available == [available |-> TRUE, pid |-> 0, since |-> "never"]

NoCall ==
    [op |-> "none", shell |-> 0, voice |-> Undefined, env |-> Undefined,
     before |-> [v \in VoiceSet |-> NoLock], alive |-> [s \in Shells |-> TRUE],
     ret |-> "none", out |-> [v \in VoiceSet |-> Available]]

\* ------------------------------------------------------------ pure queue code
\* Two broken scans: one stops at an entry of equal rank too, one never stops
\* and appends.
RECURSIVE InsertIndexFromLE(_, _, _)
InsertIndexFromLE(queue, msgPriority, i) ==
    IF i > Len(queue) THEN Len(queue) + 1
    ELSE IF msgPriority <= PRIORITY_ORDER(queue[i].pri) THEN i
    ELSE InsertIndexFromLE(queue, msgPriority, i + 1)

InsertIndexAppend(queue, message) == Len(queue) + 1

\* addToQueue's scan: the first index whose entry has a strictly larger rank
\* than the message, the length of the queue when there is none.
RECURSIVE InsertIndexFrom(_, _, _)
InsertIndexFrom(queue, msgPriority, i) ==
    IF i > Len(queue) THEN Len(queue) + 1
    ELSE IF msgPriority < PRIORITY_ORDER(queue[i].pri) THEN i
    ELSE InsertIndexFrom(queue, msgPriority, i + 1)

InsertIndex(queue, message) == InsertIndexFrom(queue, PRIORITY_ORDER(message.pri), 1)

\* queue.splice(insertIndex, 0, message)
Splice(queue, i, message) ==
    SubSeq(queue, 1, i - 1) \o <<message>> \o SubSeq(queue, i, Len(queue))

InsertByPriority(queue, message) == Splice(queue, InsertIndex(queue, message), message)

\* An isValidMessage that does not look at the required fields.
IsValidMessageAnyFields(e) == e.pri \in Priorities

\* isValidMessage: an element with its required fields (id 0 stands for one
\* that lacks them) and with no priority or one of the four priorities.
IsValidMessage(e) == e.id # 0 /\ e.pri \in Priorities

IsValidMessageQueue(kind, items) ==
    kind = "array" /\ \A i \in 1 .. Len(items) : IsValidMessage(items[i])

\* readQueue over parseMessageQueue: JSON.parse throws on what is not JSON
\* (an empty file included), parseMessageQueue throws on JSON that is not an
\* array of valid messages, and readQueue answers every throw, and a missing
\* file, with defaultMessageQueue().
ReadQueueOf(kind, items) == IF IsValidMessageQueue(kind, items) THEN items ELSE <<>>

ReadQueue == ReadQueueOf(qkind, qfile)

\* ------------------------------------------------------------- audio cache
MAX_CACHE_SIZE_MB == 50
MAX_CACHE_AGE_DAYS == 30

\* The clock counts days; a file's size counts MB.  Every write of a file
\* takes the clock one unit on, so no two files carry the same mtime, and
\* the clock may jump by more than the max age while nothing runs.  At most
\* MaxBurst files are written between two such rests.
MaxBurst == 4
AgeJump == 31

MaxClock == AgeJump + MaxBurst

WritesSinceRest == now % AgeJump

\* Cache entries by file name: getCachePath maps a key to <hash>.mp3.
Keys == {"k1", "k2", "k3"}

\* Audio buffers: their bytes, and their length in MB.
Blobs == {[data |-> "a", mb |-> 20], [data |-> "b", mb |-> 30]}

\* null, the answer of getFromCache on a miss.
NoAudio == [data |-> "<null>", mb |-> 0]

NoFile == [data |-> "<none>", mb |-> 0, mtime |-> 0 - 1]

NoFiles == [k \in Keys |-> NoFile]

\* A cleanupCache pass: where it is, its fileInfos and its now, the
\* directory as the pass left it (post), the unlink calls of the second
\* loop that threw (errs), and whether no other cache call ran meanwhile
\* (quiet).
NoCleanup == [st |-> "idle", infos |-> {}, at |-> 0, post |-> NoFiles, errs |-> 0,
              quiet |-> TRUE]

CleanupRunning == cclean.st \in {"started", "gathered", "aged"}

\* A cache call as the observer records it: alone when no other cache call
\* was running as it began.
NoCacheCall == [op |-> "none", key |-> "<none>", blob |-> NoAudio, alone |-> TRUE]

NoGet == [st |-> "idle", key |-> "<none>", audio |-> NoAudio, ret |-> NoAudio,
          prev |-> NoCacheCall, known |-> FALSE, was |-> 0 - 1, at |-> 0 - 1]

NoOut == [op |-> "none", dir |-> FALSE, before |-> {}, failed |-> {}, count |-> 0,
          entries |-> 0, sizeBytes |-> 0, alone |-> TRUE, after |-> "none"]

\* The cache directory does not exist yet and no cache call is running.
CacheIdle ==
    /\ cfiles = NoFiles
    /\ now = 0
    /\ cclean = NoCleanup
    /\ cget = NoGet
    /\ clast = NoCacheCall
    /\ cstored = {}
    /\ cdir = FALSE
    /\ cout = NoOut

\* ------------------------------------------------------------------- states
\* The playback lock, the processes and the observers of the speak path.
InitLocal ==
    /\ marker = NoMarker
    /\ attempts = [p \in Procs |-> 0]
    /\ seen = [p \in Procs |-> 0]
    /\ unlinkErr = [p \in Procs |-> FALSE]
    /\ lockHandle = [p \in Procs |-> FALSE]
    /\ lq = [p \in Procs |-> <<>>]
    /\ msg = [p \in Procs |-> NoMsg]
    /\ lockResult = [p \in Procs |-> "none"]
    /\ tookBy = [p \in Procs |-> {}]
    /\ played = {}
    /\ failed = {}
    /\ errors = [p \in Procs |-> 0]
    /\ aborted = [p \in Procs |-> FALSE]
    /\ startKind = [p \in Procs |-> "none"]
    /\ deqLog = <<>>
    /\ wrote = [p \in Procs |-> FALSE]
    /\ acqCalls = [p \in Procs |-> 0]
    /\ sounded = [p \in Procs |-> FALSE]
    /\ spoke = {}

\* No voice is reserved and no process is inside the voice API.
VoiceIdle ==
    /\ locks = [v \in VoiceSet |-> NoLock]
    /\ shellAlive = [s \in Shells |-> TRUE]
    /\ vcall = NoCall
    /\ vpc = [s \in Shells |-> "idle"]
    /\ vi = [s \in Shells |-> 1]
    /\ vseen = [s \in Shells |-> NoLock]
    /\ vret = [s \in Shells |-> "none"]

\* The options are not recorded, quiet hours are off and nothing plays.
NoOptions == [pri |-> "unset", path |-> "unset", tones |-> FALSE]

NoQuiet == [enabled |-> FALSE, ranges |-> <<>>]

FrontIdle ==
    /\ opt = [p \in Procs |-> NoOptions]
    /\ quietCfg = NoQuiet
    /\ clock = [hour |-> 0, minute |-> 0]
    /\ playing = {}

NoRequest == [text |-> <<>>, voiceId |-> <<>>, speed |-> "normal", whisper |-> "false"]

PureIdle ==
    /\ kreq = <<NoRequest, NoRequest>>
    /\ kout = <<>>

\* No drain loop of the refined kind is running.
NoService == [st |-> "idle", q |-> <<>>, key |-> "<none>", audio |-> NoAudio]

ServiceIdle ==
    /\ sv = NoService
    /\ slog = <<>>

SideIdle == FrontIdle /\ PureIdle /\ ServiceIdle

\* Everything but queue.json and the record of what was enqueued.
InitNoQueue ==
    /\ InitLocal
    /\ VoiceIdle
    /\ CacheIdle
    /\ SideIdle

InitShared ==
    /\ InitNoQueue
    /\ qkind = "array"
    /\ qfile = <<>>
    /\ enqLog = <<>>

\* A queued path that goes to processQueue at once.
FirstStepAcquire == "queued"

\* Where the queued path of speak begins: at addToQueue.
FirstStep == "idle"

\* Every speaker is a speak invocation about to take the queued path.
Init ==
    /\ pc = [p \in Procs |-> IF p \in Speakers THEN FirstStep ELSE "off"]
    /\ fsFaulty \in BOOLEAN
    /\ fallbackOn \in BOOLEAN
    /\ InitShared

\* --------------------------------------------------------------- play.lock
\* processQueue calls acquirePlaybackLock (ensureDir changes nothing here).
EnterAcquire(p) ==
    /\ pc[p] = "queued"
    /\ pc' = [pc EXCEPT ![p] = "open"]
    /\ acqCalls' = [acqCalls EXCEPT ![p] = @ + 1]
    /\ UNCHANGED <<lockVars, lockResult, fsFaulty, fallbackOn, queueVars, drainObs, seqObs,
                   voiceVars, cacheVars, sideVars, wrote, sounded, spoke>>

CallAcquire(p) == EnterAcquire(p) /\ UNCHANGED startKind

\* The same call, with the observer noting what play.lock held when it began.
CallAcquireObserved(p) ==
    /\ EnterAcquire(p)
    /\ startKind' = [startKind EXCEPT ![p] = MarkerKind]

\* The call returns, or the process ends: the locals of the call are gone.
ClearLocals(p) ==
    /\ attempts' = [attempts EXCEPT ![p] = 0]
    /\ seen' = [seen EXCEPT ![p] = 0]
    /\ unlinkErr' = [unlinkErr EXCEPT ![p] = FALSE]

\* acquirePlaybackLock returns result to processQueue.
ReturnFromAcquire(p, result) ==
    /\ pc' = [pc EXCEPT ![p] = AfterAcquire(result)]
    /\ lockResult' = [lockResult EXCEPT ![p] = IF result THEN "true" ELSE "false"]
    /\ ClearLocals(p)

\* open(PLAYBACK_LOCK, "wx"): creates the empty file, or fails with EEXIST, or
\* with another error, on which the call returns false.
OpenExclusive(p) ==
    /\ pc[p] = "open"
    /\ attempts[p] < MaxAttempts
    /\ \/ /\ marker.creator = 0
          /\ marker' = [creator |-> p, written |-> FALSE]
          /\ lockHandle' = [lockHandle EXCEPT ![p] = TRUE]
          /\ pc' = [pc EXCEPT ![p] = "writepid"]
          /\ attempts' = [attempts EXCEPT ![p] = @ + 1]
          /\ UNCHANGED <<seen, unlinkErr, lockResult>>
       \/ /\ marker.creator # 0
          /\ marker' = marker
          /\ pc' = [pc EXCEPT ![p] = "readlock"]
          /\ attempts' = [attempts EXCEPT ![p] = @ + 1]
          /\ UNCHANGED <<seen, unlinkErr, lockResult, lockHandle>>
       \/ /\ fsFaulty
          /\ marker' = marker
          /\ ReturnFromAcquire(p, FALSE)
          /\ UNCHANGED lockHandle
    /\ UNCHANGED <<fsFaulty, fallbackOn, queueVars, drainObs, seqObs, startKind, voiceVars, cacheVars, sideVars, callObs>>

\* lockHandle.writeFile(String(process.pid)): writes through the handle, so it
\* reaches play.lock only while play.lock is still the file this call created.
\* A write error is caught like any other and the call returns false; the
\* handle stays open either way.
WritePid(p) ==
    /\ pc[p] = "writepid"
    /\ UNCHANGED lockHandle
    /\ \/ /\ marker' = IF marker.creator = p
                       THEN [marker EXCEPT !.written = TRUE] ELSE marker
          /\ ReturnFromAcquire(p, TRUE)
       \/ /\ fsFaulty
          /\ marker' = marker
          /\ ReturnFromAcquire(p, FALSE)
    /\ UNCHANGED <<fsFaulty, fallbackOn, queueVars, drainObs, seqObs, startKind, voiceVars, cacheVars, sideVars, callObs>>

\* isLockStale, readFile and parseInt: a missing or unreadable file and a
\* content that is not a number are stale at once; a pid goes to the probe.
ReadLock(p) ==
    /\ pc[p] = "readlock"
    /\ \E c \in {IF marker.written THEN marker.creator ELSE 0}
               \cup (IF fsFaulty THEN {0} ELSE {}) :
          /\ seen' = [seen EXCEPT ![p] = c]
          /\ pc' = [pc EXCEPT ![p] = IF c = 0 THEN "unlink" ELSE "probe"]
    /\ UNCHANGED <<marker, attempts, unlinkErr, lockHandle, lockResult, fsFaulty,
                   fallbackOn, queueVars, drainObs, seqObs, startKind, voiceVars, cacheVars, sideVars, callObs>>

\* isLockStale, process.kill(pid, 0): alive means held, the call returns false.
ProbeLiveness(p) ==
    /\ pc[p] = "probe"
    /\ IF ProcessAlive(seen[p])
       THEN ReturnFromAcquire(p, FALSE)
       ELSE /\ pc' = [pc EXCEPT ![p] = "unlink"]
            /\ UNCHANGED <<attempts, seen, unlinkErr, lockResult>>
    /\ UNCHANGED <<marker, lockHandle, fsFaulty, fallbackOn, queueVars, drainObs, seqObs,
                   startKind, voiceVars, cacheVars, sideVars, callObs>>

\* unlink(PLAYBACK_LOCK).catch(() => {}) and then the recursive call: whatever
\* the unlink did, the call tries the exclusive creation again.
UnlinkStale(p) ==
    /\ pc[p] = "unlink"
    /\ \/ /\ marker' = NoMarker
          /\ unlinkErr' = [unlinkErr EXCEPT ![p] = FALSE]
       \/ /\ fsFaulty
          /\ marker.creator # 0
          /\ marker' = marker
          /\ unlinkErr' = [unlinkErr EXCEPT ![p] = TRUE]
    /\ pc' = [pc EXCEPT ![p] = "open"]
    /\ UNCHANGED <<attempts, seen, lockHandle, lockResult, fsFaulty, fallbackOn,
                   queueVars, drainObs, seqObs, startKind, voiceVars, cacheVars, sideVars, callObs>>

\* An unlink without the catch: deleting a file that is not there rejects.
UnlinkErrorEscapes == FALSE

\* unlink(PLAYBACK_LOCK).catch(() => {}): the rejection of the unlink, ENOENT
\* included, never reaches the caller.
UnlinkErrorSwallowed == TRUE

\* releasePlaybackLock, from position `from` to position `to`: closes the
\* handle when there is one and unlinks play.lock, whoever created the file
\* that is there now. An unlink error (no file, or a fault) is swallowed; an
\* error of close leaves the function before the unlink.
ReleaseFrom(p, from, to) ==
    /\ pc[p] = from
    /\ pc' = [pc EXCEPT ![p] = to]
    /\ \/ /\ marker' = NoMarker
          /\ lockHandle' = [lockHandle EXCEPT ![p] = FALSE]
          /\ unlinkErr' = [unlinkErr EXCEPT ![p] = FALSE]
          /\ aborted' = [aborted EXCEPT ![p] = @ \/ (marker.creator = 0 /\ ~UnlinkErrorSwallowed)]
       \/ /\ fsFaulty
          /\ marker.creator # 0
          /\ marker' = marker
          /\ lockHandle' = [lockHandle EXCEPT ![p] = FALSE]
          /\ unlinkErr' = [unlinkErr EXCEPT ![p] = TRUE]
          /\ UNCHANGED aborted
       \/ /\ fsFaulty
          /\ lockHandle[p]
          /\ marker' = marker
          /\ aborted' = [aborted EXCEPT ![p] = TRUE]
          /\ unlinkErr' = [unlinkErr EXCEPT ![p] = TRUE]
          /\ UNCHANGED lockHandle
    /\ UNCHANGED <<attempts, seen, lockResult, fsFaulty, fallbackOn, queueVars, tookBy,
                   played, failed, errors, seqObs, startKind, voiceVars, cacheVars, sideVars, callObs>>

\* The finally block of processQueue.
ReleasePlaybackLock(p) == ReleaseFrom(p, "release", "done")

\* The positions of speak before and beside the queued path.
FrontSteps == {"called", "quiet", "tones", "toning", "direct", "directing", "returned",
               "exited"}

\* The process is killed anywhere inside the queued path.
Crash(p) ==
    /\ pc[p] \notin {"idle", "queued", "done", "denied", "crashed", "rejected", "off"}
    /\ pc[p] \notin FrontSteps
    /\ pc' = [pc EXCEPT ![p] = "crashed"]
    /\ ClearLocals(p)
    /\ lockHandle' = [lockHandle EXCEPT ![p] = FALSE]
    /\ lq' = [lq EXCEPT ![p] = <<>>]
    /\ msg' = [msg EXCEPT ![p] = NoMsg]
    /\ UNCHANGED <<marker, qkind, qfile, lockResult, fsFaulty, fallbackOn, drainObs,
                   seqObs, startKind, voiceVars, cacheVars, sideVars, callObs>>

\* The holder's work between acquire and release, with the queue left out.
HoldThenRelease(p) ==
    /\ pc[p] = "holding"
    /\ pc' = [pc EXCEPT ![p] = "release"]
    /\ UNCHANGED <<lockVars, lockResult, fsFaulty, fallbackOn, queueVars, drainObs, seqObs, startKind, voiceVars, cacheVars, sideVars, callObs>>

LockStep(p) ==
    \/ CallAcquire(p)
    \/ OpenExclusive(p)
    \/ WritePid(p)
    \/ ReadLock(p)
    \/ ProbeLiveness(p)
    \/ UnlinkStale(p)
    \/ ReleasePlaybackLock(p)
    \/ Crash(p)

\* ---------------------------------------------------------------- queue.json
\* options.priority of the invocation: the recorded one, or any.
PriorityGiven(p) == IF opt[p].pri = "unset" THEN SpeakPriorities ELSE {opt[p].pri}

\* addToQueue up to its write: readQueue, the scan and the splice. The entry
\* carries the id of the invocation and the priority it was given.
AddRead(p) ==
    /\ pc[p] = "idle"
    /\ \E pri \in PriorityGiven(p) :
          lq' = [lq EXCEPT ![p] = InsertByPriority(ReadQueue, [id |-> p, pri |-> pri])]
    /\ pc' = [pc EXCEPT ![p] = "add_trunc"]
    /\ UNCHANGED <<qkind, qfile, msg, lockVars, lockResult, fsFaulty, fallbackOn, drainObs,
                   seqObs, startKind, voiceVars, cacheVars, sideVars, callObs>>

\* writeFile opens queue.json with O_TRUNC: until the data is written a reader
\* finds an empty file, which is no JSON and which readQueue turns into the
\* empty queue.
WriteTruncates(p, from, to) ==
    /\ pc[p] = from
    /\ qkind' = "garbage"
    /\ qfile' = <<>>
    /\ pc' = [pc EXCEPT ![p] = to]
    /\ UNCHANGED <<lq, msg, lockVars, lockResult, fsFaulty, fallbackOn, drainObs,
                   seqObs, startKind, voiceVars, cacheVars, sideVars, callObs>>

AddTruncate(p) == WriteTruncates(p, "add_trunc", "add_write")

\* writeFile cannot open queue.json: addToQueue rejects, and so does speak,
\* before processQueue; the file is as it was.
AddOpenFails(p) ==
    /\ pc[p] = "add_trunc"
    /\ fsFaulty
    /\ pc' = [pc EXCEPT ![p] = "rejected"]
    /\ lq' = [lq EXCEPT ![p] = <<>>]
    /\ UNCHANGED <<qkind, qfile, msg, lockVars, lockResult, fsFaulty, fallbackOn, drainObs,
                   seqObs, startKind, voiceVars, cacheVars, sideVars, callObs>>

\* writeFile(QUEUE_FILE, JSON.stringify(queue)) of addToQueue, which returns;
\* when the write fails the file stays as the truncation left it, addToQueue
\* rejects, and so does speak, before processQueue.
AddWrite(p) ==
    /\ pc[p] = "add_write"
    /\ \/ /\ qkind' = "array"
          /\ qfile' = lq[p]
          /\ pc' = [pc EXCEPT ![p] = "queued"]
          /\ wrote' = [wrote EXCEPT ![p] = TRUE]
       \/ /\ fsFaulty
          /\ UNCHANGED <<qkind, qfile, wrote>>
          /\ pc' = [pc EXCEPT ![p] = "rejected"]
    /\ lq' = [lq EXCEPT ![p] = <<>>]
    /\ UNCHANGED <<msg, lockVars, lockResult, fsFaulty, fallbackOn, drainObs, seqObs,
                   startKind, voiceVars, cacheVars, sideVars, acqCalls, sounded, spoke>>

\* takeFromQueue up to its write, at the top of the drain loop: null on an
\* empty queue, which ends the loop; otherwise the head is shifted off.
TakeRead(p) ==
    /\ pc[p] = "holding"
    /\ IF ReadQueue = <<>>
       THEN /\ pc' = [pc EXCEPT ![p] = "release"]
            /\ UNCHANGED <<lq, msg>>
       ELSE /\ msg' = [msg EXCEPT ![p] = Head(ReadQueue)]
            /\ lq' = [lq EXCEPT ![p] = Tail(ReadQueue)]
            /\ pc' = [pc EXCEPT ![p] = "take_trunc"]
    /\ UNCHANGED <<qkind, qfile, lockVars, lockResult, fsFaulty, fallbackOn, drainObs,
                   seqObs, startKind, voiceVars, cacheVars, sideVars, callObs>>

TakeTruncate(p) == WriteTruncates(p, "take_trunc", "take_write")

\* A processQueue without the finally block: an exception leaves it at once.
AfterThrowNoFinally == "done"

\* Where an exception inside the try block of processQueue goes: to the
\* finally block.
AfterThrow == "release"

\* writeFile of takeFromQueue, which returns the message to the drain loop;
\* when the write fails takeFromQueue rejects, outside the inner try block.
TakeWrite(p) ==
    /\ pc[p] = "take_write"
    /\ \/ /\ qkind' = "array"
          /\ qfile' = lq[p]
          /\ tookBy' = [tookBy EXCEPT ![p] = @ \cup {msg[p].id}]
          /\ pc' = [pc EXCEPT ![p] = "service"]
          /\ UNCHANGED <<msg, aborted>>
       \/ /\ fsFaulty
          /\ UNCHANGED <<qkind, qfile, tookBy>>
          /\ msg' = [msg EXCEPT ![p] = NoMsg]
          /\ aborted' = [aborted EXCEPT ![p] = TRUE]
          /\ pc' = [pc EXCEPT ![p] = AfterThrow]
    /\ lq' = [lq EXCEPT ![p] = <<>>]
    /\ UNCHANGED <<lockVars, lockResult, fsFaulty, fallbackOn, played, failed, errors,
                   seqObs, startKind, voiceVars, cacheVars, sideVars, callObs>>

\* ---------------------------------------------------------------- drain loop
\* message.text: the entry an invocation enqueued carries that invocation's
\* processed text, so a text is named by the invocation it came from.
MessageText(m) == m.id

\* The fallbackText argument of processQueue: the processed text of the
\* invocation that runs the drain loop.
FallbackText(p) == p

\* The inner try block: cache lookup, synthesis, cache save and playback either
\* all succeed, or one of them throws and the catch block reports the error.
\* With the fallback configured the catch block goes on to speakLocal.
ServiceDone(p) ==
    /\ pc[p] = "service"
    /\ \/ /\ played' = played \cup {msg[p].id}
          /\ msg' = [msg EXCEPT ![p] = NoMsg]
          /\ pc' = [pc EXCEPT ![p] = "holding"]
          /\ sounded' = [sounded EXCEPT ![p] = TRUE]
          /\ spoke' = spoke \cup {[entry |-> msg[p].id, text |-> MessageText(msg[p])]}
          /\ UNCHANGED <<failed, errors>>
       \/ /\ failed' = failed \cup {msg[p].id}
          /\ errors' = [errors EXCEPT ![p] = @ + 1]
          /\ IF fallbackOn
             THEN /\ pc' = [pc EXCEPT ![p] = "fallback"]
                  /\ UNCHANGED msg
             ELSE /\ pc' = [pc EXCEPT ![p] = "holding"]
                  /\ msg' = [msg EXCEPT ![p] = NoMsg]
          /\ UNCHANGED <<played, sounded, spoke>>
    /\ UNCHANGED <<qkind, qfile, lq, lockVars, lockResult, fsFaulty, fallbackOn, tookBy,
                   aborted, seqObs, startKind, voiceVars, cacheVars, wrote, acqCalls>>

\* The whole inner try block in one step.
Service(p) == ServiceDone(p) /\ UNCHANGED sideVars

\* The same block in two steps: playAudio has started the player and awaits
\* its exit, then the block ends.
ServicePlays(p) ==
    /\ pc[p] = "service"
    /\ p \notin playing
    /\ playing' = playing \cup {p}
    /\ UNCHANGED <<speakVars, voiceVars, cacheVars, opt, quietCfg, clock, pureVars, serviceVars>>

ServiceEnds(p) ==
    /\ p \in playing
    /\ ServiceDone(p)
    /\ playing' = playing \ {p}
    /\ UNCHANGED <<opt, quietCfg, clock, pureVars, serviceVars>>

\* await speakLocal(fallbackText, ...) inside the catch block: when it throws,
\* nothing catches it before the finally of processQueue.
Fallback(p) ==
    /\ pc[p] = "fallback"
    /\ \/ /\ pc' = [pc EXCEPT ![p] = "holding"]
          /\ sounded' = [sounded EXCEPT ![p] = TRUE]
          /\ spoke' = spoke \cup {[entry |-> msg[p].id, text |-> FallbackText(p)]}
          /\ UNCHANGED aborted
       \/ /\ pc' = [pc EXCEPT ![p] = AfterThrow]
          /\ aborted' = [aborted EXCEPT ![p] = TRUE]
          /\ UNCHANGED <<sounded, spoke>>
    /\ msg' = [msg EXCEPT ![p] = NoMsg]
    /\ UNCHANGED <<qkind, qfile, lq, lockVars, lockResult, fsFaulty, fallbackOn, tookBy,
                   played, failed, errors, seqObs, startKind, voiceVars, cacheVars, sideVars,
                   wrote, acqCalls>>

\* ------------------------------------------------------- speak, its front
\* quiet.json as loadQuietConfig returns it, and the wall clock.
TimesOfDay ==
    {[hour |-> 0, minute |-> 0], [hour |-> 6, minute |-> 0],
     [hour |-> 22, minute |-> 0], [hour |-> 22, minute |-> 30]}

TimeRanges ==
    {[startHour |-> s.hour, startMinute |-> s.minute,
      endHour |-> e.hour, endMinute |-> e.minute] : s, e \in TimesOfDay}

RangeLists == {<<>>} \cup {<<r>> : r \in TimeRanges} \cup {<<r, s>> : r, s \in TimeRanges}

QuietConfigs == [enabled : BOOLEAN, ranges : RangeLists]

ClockTimes ==
    {[hour |-> 0, minute |-> 0], [hour |-> 5, minute |-> 59], [hour |-> 6, minute |-> 0],
     [hour |-> 12, minute |-> 0], [hour |-> 21, minute |-> 59], [hour |-> 22, minute |-> 0],
     [hour |-> 22, minute |-> 29], [hour |-> 23, minute |-> 59]}

\* A range test that knows no range across midnight.
InRangeSameDay(range, currentMinutes) ==
    LET startMinutes == range.startHour * 60 + range.startMinute
        endMinutes == range.endHour * 60 + range.endMinute
    IN  currentMinutes >= startMinutes /\ currentMinutes < endMinutes

\* The body of the loop of isQuietTime.
InRange(range, currentMinutes) ==
    LET startMinutes == range.startHour * 60 + range.startMinute
        endMinutes == range.endHour * 60 + range.endMinute
    IN  IF startMinutes > endMinutes
        THEN currentMinutes >= startMinutes \/ currentMinutes < endMinutes
        ELSE currentMinutes >= startMinutes /\ currentMinutes < endMinutes

IsQuietTime(config, t) ==
    IF ~config.enabled \/ Len(config.ranges) = 0
    THEN FALSE
    ELSE \E i \in 1 .. Len(config.ranges) :
             InRange(config.ranges[i], t.hour * 60 + t.minute)

\* The options of an invocation: its priority, the path its flags and the
\* configuration select, and whether a beep or a voice signature is due.
\* "exit" is a path that ends in process.exit(1).
QuietPriorities == {"critical", "high", "none"}

SpeakPaths == {"queued", "local", "provider", "stream", "exit"}

OptionSets == [pri : QuietPriorities, path : SpeakPaths, tones : BOOLEAN]

\* What a step of the front leaves alone.
frontKeeps ==
    <<lockVars, fsFaulty, queueVars, fallbackOn, lockResult, drainObs, startKind, seqObs,
      wrote, acqCalls, spoke, voiceVars, cacheVars, opt, quietCfg, clock, pureVars, serviceVars>>

\* if (options.priority !== "critical" && (await isQuietTime())) return;
SpeakGate(p) ==
    /\ pc[p] = "called"
    /\ pc' = [pc EXCEPT ![p] = IF opt[p].pri # "critical" /\ IsQuietTime(quietCfg, clock)
                               THEN "quiet"
                               ELSE "tones"]
    /\ UNCHANGED <<frontKeeps, playing, sounded>>

\* Where speak goes after the tones.
RouteOf(p) ==
    CASE opt[p].path = "queued" -> FirstStep
      [] opt[p].path = "exit" -> "exited"
      [] OTHER -> "direct"

\* await playBeep(sentiment) and await playVoiceSignature(...): no lock is
\* taken, the player runs until TonesEnd.
TonesStart(p) ==
    /\ pc[p] = "tones"
    /\ opt[p].tones
    /\ pc' = [pc EXCEPT ![p] = "toning"]
    /\ playing' = playing \cup {p}
    /\ sounded' = [sounded EXCEPT ![p] = TRUE]
    /\ UNCHANGED frontKeeps

TonesEnd(p) ==
    /\ pc[p] = "toning"
    /\ pc' = [pc EXCEPT ![p] = RouteOf(p)]
    /\ playing' = playing \ {p}
    /\ UNCHANGED <<frontKeeps, sounded>>

\* A neutral text with --no-signature: no tone.
TonesSkip(p) ==
    /\ pc[p] = "tones"
    /\ ~opt[p].tones
    /\ pc' = [pc EXCEPT ![p] = RouteOf(p)]
    /\ UNCHANGED <<frontKeeps, playing, sounded>>

\* speakWithLocalTTS, speakWithProvider and the --stream branch: each plays
\* without acquirePlaybackLock, and speak returns when the player has ended.
DirectStart(p) ==
    /\ pc[p] = "direct"
    /\ pc' = [pc EXCEPT ![p] = "directing"]
    /\ playing' = playing \cup {p}
    /\ sounded' = [sounded EXCEPT ![p] = TRUE]
    /\ UNCHANGED frontKeeps

DirectEnd(p) ==
    /\ pc[p] = "directing"
    /\ pc' = [pc EXCEPT ![p] = "returned"]
    /\ playing' = playing \ {p}
    /\ UNCHANGED <<frontKeeps, sounded>>

SpeakFront(p) ==
    \/ SpeakGate(p)
    \/ TonesStart(p)
    \/ TonesEnd(p)
    \/ TonesSkip(p)
    \/ DirectStart(p)
    \/ DirectEnd(p)

\* ----------------------------------- speak with quiet hours, one invocation
\* One invocation, alone and not killed, on a healthy file system.
QuietCallers == {1}

InitQuiet ==
    /\ pc = [p \in Procs |-> IF p \in QuietCallers THEN "called" ELSE "off"]
    /\ fsFaulty = FALSE
    /\ fallbackOn = FALSE
    /\ InitLocal
    /\ VoiceIdle
    /\ CacheIdle
    /\ PureIdle
    /\ ServiceIdle
    /\ qkind = "array"
    /\ qfile = <<>>
    /\ enqLog = <<>>
    /\ opt \in {[p \in Procs |-> IF p \in QuietCallers THEN o ELSE NoOptions] :
                   o \in OptionSets}
    /\ quietCfg \in QuietConfigs
    /\ clock \in ClockTimes
    /\ playing = {}

NextQuiet ==
    \E p \in Procs :
        \/ SpeakFront(p)
        \/ AddRead(p)
        \/ AddTruncate(p)
        \/ AddWrite(p)
        \/ CallAcquire(p)
        \/ OpenExclusive(p)
        \/ WritePid(p)
        \/ ReleasePlaybackLock(p)
        \/ TakeRead(p)
        \/ TakeTruncate(p)
        \/ TakeWrite(p)
        \/ Service(p)

SpecQuiet == InitQuiet /\ [][NextQuiet]_vars

\* -------------------------------- speak on any path, two invocations at once
\* Quiet hours are off, the file system is healthy and no process is killed.
InitOverlap ==
    /\ pc = [p \in Procs |-> IF p \in Speakers THEN "called" ELSE "off"]
    /\ fsFaulty = FALSE
    /\ fallbackOn = FALSE
    /\ InitLocal
    /\ VoiceIdle
    /\ CacheIdle
    /\ PureIdle
    /\ ServiceIdle
    /\ qkind = "array"
    /\ qfile = <<>>
    /\ enqLog = <<>>
    /\ opt \in {[p \in Procs |-> IF p \in Speakers THEN o[p] ELSE NoOptions] :
                   o \in [Speakers -> {x \in OptionSets : x.pri = "none"}]}
    /\ quietCfg = NoQuiet
    /\ clock = [hour |-> 12, minute |-> 0]
    /\ playing = {}

NextOverlap ==
    \E p \in Procs :
        \/ SpeakFront(p)
        \/ AddRead(p)
        \/ AddTruncate(p)
        \/ AddWrite(p)
        \/ CallAcquire(p)
        \/ OpenExclusive(p)
        \/ WritePid(p)
        \/ ReadLock(p)
        \/ ProbeLiveness(p)
        \/ ReleasePlaybackLock(p)
        \/ TakeRead(p)
        \/ TakeTruncate(p)
        \/ TakeWrite(p)
        \/ ServicePlays(p)
        \/ ServiceEnds(p)

SpecOverlap == InitOverlap /\ [][NextOverlap]_vars

\* ------------------------------------ speak, queued path, any interleaving
Next ==
    \E p \in Procs :
        \/ AddRead(p)
        \/ AddTruncate(p)
        \/ AddOpenFails(p)
        \/ AddWrite(p)
        \/ LockStep(p)
        \/ TakeRead(p)
        \/ TakeTruncate(p)
        \/ TakeWrite(p)
        \/ Service(p)
        \/ Fallback(p)

Spec == Init /\ [][Next]_vars

\* ------------------------------------------- the lock alone, any interleaving
InitLock ==
    /\ pc = [p \in Procs |-> "queued"]
    /\ fsFaulty \in BOOLEAN
    /\ fallbackOn = FALSE
    /\ InitShared

NextLock == \E p \in Procs : LockStep(p) \/ HoldThenRelease(p)

SpecLock == InitLock /\ [][NextLock]_vars

\* ---------------------------------- the lock alone, one call after another
\* The calls of a test that acquires and releases from simulated owners: no
\* process takes a step while another one is inside acquirePlaybackLock.
InitLockSeq ==
    /\ pc = [p \in Procs |-> "queued"]
    /\ fsFaulty = FALSE
    /\ fallbackOn = FALSE
    /\ InitShared

\* No other process is inside acquirePlaybackLock.
Alone(p) == \A q \in Procs \ {p} : ~InAcquire(q)

NextLockSeq ==
    \E p \in Procs :
        \/ Alone(p) /\ CallAcquireObserved(p)
        \/ Alone(p) /\ OpenExclusive(p)
        \/ Alone(p) /\ WritePid(p)
        \/ Alone(p) /\ ReadLock(p)
        \/ Alone(p) /\ ProbeLiveness(p)
        \/ Alone(p) /\ UnlinkStale(p)
        \/ Alone(p) /\ ReleasePlaybackLock(p)
        \/ Alone(p) /\ Crash(p)
        \/ Alone(p) /\ HoldThenRelease(p)

SpecLockSeq == InitLockSeq /\ [][NextLockSeq]_vars

\* ------------------------------ release called again, one call after another
\* A process that has returned from processQueue, or was refused, calls
\* releasePlaybackLock again, and once more after that.
ReleaseAgain(p) ==
    /\ pc[p] \in {"done", "denied", "done2"}
    /\ pc' = [pc EXCEPT ![p] = IF pc[p] = "done2" THEN "release3" ELSE "release2"]
    /\ UNCHANGED <<lockVars, lockResult, fsFaulty, fallbackOn, queueVars, drainObs, seqObs,
                   startKind, voiceVars, cacheVars, sideVars, callObs>>

SecondRelease(p) == ReleaseFrom(p, "release2", "done2")

ThirdRelease(p) == ReleaseFrom(p, "release3", "done3")

NextRelease ==
    \E p \in Procs :
        \/ Alone(p) /\ CallAcquireObserved(p)
        \/ Alone(p) /\ OpenExclusive(p)
        \/ Alone(p) /\ WritePid(p)
        \/ Alone(p) /\ ReadLock(p)
        \/ Alone(p) /\ ProbeLiveness(p)
        \/ Alone(p) /\ UnlinkStale(p)
        \/ Alone(p) /\ Crash(p)
        \/ Alone(p) /\ HoldThenRelease(p)
        \/ Alone(p) /\ ReleasePlaybackLock(p)
        \/ Alone(p) /\ ReleaseAgain(p)
        \/ Alone(p) /\ SecondRelease(p)
        \/ Alone(p) /\ ThirdRelease(p)

SpecRelease == InitLockSeq /\ [][NextRelease]_vars

\* ------------------------------- the queue alone, one call after another
\* addToQueue as a whole, called with any priority or none; the calls of
\* addToQueue come first, the calls of takeFromQueue after them.
AddToQueue(pri) ==
    /\ Len(enqLog) < MaxEnq
    /\ deqLog = <<>>
    /\ qkind' = "array"
    /\ qfile' = InsertByPriority(ReadQueue, [id |-> Len(enqLog) + 1, pri |-> pri])
    /\ enqLog' = Append(enqLog, [id |-> Len(enqLog) + 1, pri |-> pri])
    /\ UNCHANGED <<pc, lockVars, lockResult, fsFaulty, fallbackOn, lq, msg, drainObs,
                   deqLog, startKind, voiceVars, cacheVars, sideVars, callObs>>

\* takeFromQueue as a whole, returning a message.
TakeFromQueue ==
    /\ ReadQueue # <<>>
    /\ deqLog' = Append(deqLog, Head(ReadQueue))
    /\ qkind' = "array"
    /\ qfile' = Tail(ReadQueue)
    /\ UNCHANGED <<pc, lockVars, lockResult, fsFaulty, fallbackOn, lq, msg, drainObs,
                   enqLog, startKind, voiceVars, cacheVars, sideVars, callObs>>

InitQueue ==
    /\ pc = [p \in Procs |-> "off"]
    /\ fsFaulty = FALSE
    /\ fallbackOn = FALSE
    /\ InitShared

NextQueue ==
    \/ \E pri \in Priorities : AddToQueue(pri)
    \/ TakeFromQueue

SpecQueue == InitQueue /\ [][NextQueue]_vars

\* ------------------------------------ the queue alone, on a corrupted file
\* What queue.json can hold that is not a valid array of messages: no JSON,
\* JSON that is no array, and an array with an element that lacks required
\* fields (id 0) or has an unknown priority.
OldEntries == [id : {0, 9}, pri : {"high", "none", "bogus"}]

CorruptFiles ==
    {[kind |-> k, items |-> <<>>] : k \in {"garbage", "object"}}
        \cup {[kind |-> "array", items |-> q] :
                 q \in {r \in UNION {[1 .. n -> OldEntries] : n \in 1 .. 2} :
                           \E i \in 1 .. Len(r) : ~(r[i].id # 0 /\ r[i].pri \in Priorities)}}

\* takeFromQueue on a queue that reads as empty: returns null, writes nothing.
TakeFromQueueNull ==
    /\ ReadQueue = <<>>
    /\ Len(deqLog) < MaxEnq
    /\ deqLog' = Append(deqLog, NoMsg)
    /\ UNCHANGED <<pc, lockVars, lockResult, fsFaulty, fallbackOn, queueVars, drainObs,
                   enqLog, startKind, voiceVars, cacheVars, sideVars, callObs>>

InitCorrupt ==
    /\ pc = [p \in Procs |-> "off"]
    /\ fsFaulty = FALSE
    /\ fallbackOn = FALSE
    /\ \E f \in CorruptFiles : qkind = f.kind /\ qfile = f.items
    /\ enqLog = <<>>
    /\ InitNoQueue

NextCorrupt ==
    \/ \E pri \in Priorities : AddToQueue(pri)
    \/ TakeFromQueue
    \/ TakeFromQueueNull

SpecCorrupt == InitCorrupt /\ [][NextCorrupt]_vars

\* ------------------------------------------- one holder draining a queue
\* queue.json already holds entries of earlier invocations (ordered, as
\* addToQueue leaves them) when one process reaches processQueue; nothing
\* else runs. enqLog remembers what the queue held.
IdsInOrder(s) == \A i \in 1 .. Len(s) : s[i].id = i

RanksAscend(s) == \A i \in 1 .. Len(s) - 1 : PRIORITY_ORDER(s[i].pri) <= PRIORITY_ORDER(s[i + 1].pri)

Preloads ==
    UNION {{q \in [1 .. n -> [id : 1 .. n, pri : Priorities \ {"none"}]] :
               IdsInOrder(q) /\ RanksAscend(q)} : n \in 1 .. MaxPreload}

InitDrain ==
    /\ pc = [p \in Procs |-> IF p = 1 THEN "queued" ELSE "off"]
    /\ fsFaulty = FALSE
    /\ fallbackOn \in BOOLEAN
    /\ qkind = "array"
    /\ qfile \in Preloads
    /\ enqLog = qfile
    /\ InitNoQueue

NextDrain ==
    \E p \in Procs :
        \/ CallAcquire(p)
        \/ OpenExclusive(p)
        \/ WritePid(p)
        \/ TakeRead(p)
        \/ TakeTruncate(p)
        \/ TakeWrite(p)
        \/ Service(p)
        \/ Fallback(p)
        \/ ReleasePlaybackLock(p)

SpecDrain == InitDrain /\ [][NextDrain]_vars

\* ----------------------------- the voice API, one call after another
\* cleanupStaleLocks, and the deletions of getVoiceStatuses: every marker
\* whose owner is gone is deleted, the others stay.
CleanupStaleLocks(L) == [v \in VoiceSet |-> IF IsStale(L[v]) THEN NoLock ELSE L[v]]

\* A scan that prefers the voices at the end of the list.
LastAvailableFrom(L, i) ==
    IF \A j \in i .. Len(VOICE_NAMES) : L[VOICE_NAMES[j]].pid # 0 /\ ~IsStale(L[VOICE_NAMES[j]])
    THEN 0
    ELSE CHOOSE j \in i .. Len(VOICE_NAMES) :
            /\ L[VOICE_NAMES[j]].pid = 0 \/ IsStale(L[VOICE_NAMES[j]])
            /\ \A k \in j + 1 .. Len(VOICE_NAMES) :
                  L[VOICE_NAMES[k]].pid # 0 /\ ~IsStale(L[VOICE_NAMES[k]])

\* The scan of reserveVoice from index i: the first voice isAvailable accepts
\* (no marker, or a stale one), 0 when the list is exhausted.
RECURSIVE FirstAvailableFrom(_, _)
FirstAvailableFrom(L, i) ==
    IF i > Len(VOICE_NAMES) THEN 0
    ELSE IF L[VOICE_NAMES[i]].pid = 0 \/ IsStale(L[VOICE_NAMES[i]]) THEN i
    ELSE FirstAvailableFrom(L, i + 1)

Called(op, s, voice, env, ret, out) ==
    [op |-> op, shell |-> s, voice |-> voice, env |-> env, before |-> locks,
     alive |-> shellAlive, ret |-> ret, out |-> out]

\* reserveVoice run to its end by a CLI process of session s.
ReserveVoice(s) ==
    /\ shellAlive[s]
    /\ LET cleaned == CleanupStaleLocks(locks)
           i == FirstAvailableFrom(cleaned, 1)
       IN IF i = 0
          THEN /\ locks' = cleaned
               /\ vcall' = Called("reserve", s, Undefined, Undefined, "null", NoCall.out)
          ELSE \E t \in Times :
                  /\ locks' = [cleaned EXCEPT ![VOICE_NAMES[i]] = [pid |-> ParentPid(s), at |-> t]]
                  /\ vcall' = Called("reserve", s, Undefined, Undefined, VOICE_NAMES[i], NoCall.out)
    /\ UNCHANGED <<speakVars, cacheVars, sideVars, shellAlive, vpc, vi, vseen, vret>>

\* voice?.toLowerCase() ?? process.env.TALKBACK_VOICE?.toLowerCase()
Target(voice, env) ==
    IF voice # Undefined THEN ToLowerCase(voice)
    ELSE IF env # Undefined THEN ToLowerCase(env)
    ELSE Undefined

\* A check that lets every name through that is there at all.
RejectedOnlyMissing(target) == target = Undefined

\* !target || !VOICE_NAMES.includes(target)
Rejected(target) == target = Undefined \/ target = "" \/ target \notin VoiceSet

\* readLock(target): there is no marker file for a name that is no voice.
ReadLockOf(L, target) == IF target \in VoiceSet THEN L[target] ELSE NoLock

\* A release that asks nothing about the owner.
AnyoneMayRelease(lock, s) == TRUE

\* lock.pid === shellPid || !isProcessAlive(lock.pid)
OwnsOrStale(lock, s) == lock.pid = ParentPid(s) \/ ~IsProcessAlive(lock.pid)

\* releaseVoice(voice) run to its end by a CLI process of session s, with
\* TALKBACK_VOICE set to env.
ReleaseVoice(s, voice, env) ==
    /\ shellAlive[s]
    /\ LET target == Target(voice, env)
           lock == ReadLockOf(locks, target)
       IN IF Rejected(target)
          THEN /\ vcall' = Called("release", s, voice, env, "false", NoCall.out)
               /\ UNCHANGED locks
          ELSE IF lock.pid = 0
          THEN /\ vcall' = Called("release", s, voice, env, "true", NoCall.out)
               /\ UNCHANGED locks
          ELSE IF OwnsOrStale(lock, s)
          THEN /\ vcall' = Called("release", s, voice, env, "true", NoCall.out)
               /\ locks' = [v \in VoiceSet |-> IF v = target THEN NoLock ELSE locks[v]]
          ELSE /\ vcall' = Called("release", s, voice, env, "false", NoCall.out)
               /\ UNCHANGED locks
    /\ UNCHANGED <<speakVars, cacheVars, sideVars, shellAlive, vpc, vi, vseen, vret>>

\* A report that takes every marker for a live reservation.
StatusOfNoProbe(lock) ==
    IF lock.pid = 0 THEN Available
    ELSE [available |-> FALSE, pid |-> lock.pid, since |-> lock.at]

\* One entry of getVoiceStatuses.
StatusOf(lock) ==
    IF lock.pid = 0 \/ ~IsProcessAlive(lock.pid) THEN Available
    ELSE [available |-> FALSE, pid |-> lock.pid, since |-> lock.at]

\* getVoiceStatuses run to its end by a CLI process of session s.
GetVoiceStatuses(s) ==
    /\ shellAlive[s]
    /\ vcall' = Called("statuses", s, Undefined, Undefined, "none",
                       [v \in VoiceSet |-> StatusOf(locks[v])])
    /\ locks' = CleanupStaleLocks(locks)
    /\ UNCHANGED <<speakVars, cacheVars, sideVars, shellAlive, vpc, vi, vseen, vret>>

\* The shell of a session exits, while none of its commands is running.
ShellExits(s) ==
    /\ shellAlive[s]
    /\ vpc[s] \in {"idle", "returned"}
    /\ shellAlive' = [shellAlive EXCEPT ![s] = FALSE]
    /\ UNCHANGED <<speakVars, cacheVars, sideVars, locks, vcall, vpc, vi, vseen, vret>>

\* The speak path is not running.
SpeakIdle ==
    /\ pc = [p \in Procs |-> "off"]
    /\ fsFaulty = FALSE
    /\ fallbackOn = FALSE
    /\ qkind = "array"
    /\ qfile = <<>>
    /\ enqLog = <<>>
    /\ InitLocal

InitVoice == SpeakIdle /\ VoiceIdle /\ CacheIdle /\ SideIdle

NextVoice ==
    \E s \in Shells :
        \/ ReserveVoice(s)
        \/ \E voice \in ArgNames, env \in EnvNames :
              (voice # Undefined => env = Undefined) /\ ReleaseVoice(s, voice, env)
        \/ GetVoiceStatuses(s)
        \/ ShellExits(s)

SpecVoice == InitVoice /\ [][NextVoice]_vars

\* ---------------------------------- markers with unparsable content
\* A <voice>.lock whose content parseLockFile rejects: the file is there,
\* and readLock returns null for it as for no file.
Garbled == [pid |-> 0, at |-> "garbled"]

\* Voice markers with no JSON in them are lying around; play.lock gets its
\* unparsable content from a process killed between the creation of the file
\* and the write of its pid. The lock calls come one after another and
\* before the first voice call; the voice calls run while no process has
\* called acquirePlaybackLock.
InitGarbled ==
    /\ pc = [p \in Procs |-> "queued"]
    /\ fsFaulty = FALSE
    /\ fallbackOn = FALSE
    /\ qkind = "array"
    /\ qfile = <<>>
    /\ enqLog = <<>>
    /\ InitLocal
    /\ CacheIdle
    /\ SideIdle
    /\ shellAlive = [s \in Shells |-> TRUE]
    /\ vcall = NoCall
    /\ vpc = [s \in Shells |-> "idle"]
    /\ vi = [s \in Shells |-> 1]
    /\ vseen = [s \in Shells |-> NoLock]
    /\ vret = [s \in Shells |-> "none"]
    /\ locks \in {L \in [VoiceSet -> {NoLock, Garbled}] :
                     \A i \in 3 .. Len(VOICE_NAMES) : L[VOICE_NAMES[i]] = NoLock}

NextGarbled ==
    \/ vcall.op = "none" /\ NextLockSeq
    \/ (\A p \in Procs : pc[p] = "queued") /\ NextVoice

SpecGarbled == InitGarbled /\ [][NextGarbled]_vars

\* ------------------------------------- reserveVoice, any interleaving
\* One CLI process per session runs reserveVoice; each file access is a step.
ReserveStart(s) ==
    /\ shellAlive[s]
    /\ vpc[s] = "idle"
    /\ vpc' = [vpc EXCEPT ![s] = "cleanup"]
    /\ vi' = [vi EXCEPT ![s] = 1]
    /\ UNCHANGED <<speakVars, cacheVars, sideVars, locks, shellAlive, vcall, vseen, vret>>

\* The loop of cleanupStaleLocks moves to the next voice, or the function
\* returns and the scan of reserveVoice begins.
CleanupAdvance(s) ==
    IF vi[s] < Len(VOICE_NAMES)
    THEN vi' = [vi EXCEPT ![s] = @ + 1] /\ vpc' = [vpc EXCEPT ![s] = "cleanup"]
    ELSE vi' = [vi EXCEPT ![s] = 1] /\ vpc' = [vpc EXCEPT ![s] = "scan"]

\* cleanupStaleLocks: readLock(voice) and the liveness probe.
CleanupRead(s) ==
    /\ vpc[s] = "cleanup"
    /\ vseen' = [vseen EXCEPT ![s] = locks[VOICE_NAMES[vi[s]]]]
    /\ IF IsStale(locks[VOICE_NAMES[vi[s]]])
       THEN vpc' = [vpc EXCEPT ![s] = "cleanup_delete"] /\ UNCHANGED vi
       ELSE CleanupAdvance(s)
    /\ UNCHANGED <<speakVars, cacheVars, sideVars, locks, shellAlive, vcall, vret>>

\* cleanupStaleLocks: deleteLock(voice), whatever the file holds by now.
CleanupDelete(s) ==
    /\ vpc[s] = "cleanup_delete"
    /\ locks' = [locks EXCEPT ![VOICE_NAMES[vi[s]]] = NoLock]
    /\ CleanupAdvance(s)
    /\ UNCHANGED <<speakVars, cacheVars, sideVars, shellAlive, vcall, vseen, vret>>

\* isAvailable(voice): readLock and the liveness probe. A voice held by a
\* live owner sends the scan on, and past the last voice reserveVoice
\* returns null.
IsAvailableRead(s) ==
    /\ vpc[s] = "scan"
    /\ vseen' = [vseen EXCEPT ![s] = locks[VOICE_NAMES[vi[s]]]]
    /\ IF locks[VOICE_NAMES[vi[s]]].pid = 0
       THEN vpc' = [vpc EXCEPT ![s] = "write"] /\ UNCHANGED <<vi, vret>>
       ELSE IF IsStale(locks[VOICE_NAMES[vi[s]]])
       THEN vpc' = [vpc EXCEPT ![s] = "scan_delete"] /\ UNCHANGED <<vi, vret>>
       ELSE IF vi[s] < Len(VOICE_NAMES)
       THEN vi' = [vi EXCEPT ![s] = @ + 1] /\ UNCHANGED <<vpc, vret>>
       ELSE /\ vpc' = [vpc EXCEPT ![s] = "returned"]
            /\ vret' = [vret EXCEPT ![s] = "null"]
            /\ UNCHANGED vi
    /\ UNCHANGED <<speakVars, cacheVars, sideVars, locks, shellAlive, vcall>>

\* isAvailable(voice): deleteLock of the stale marker, then true.
IsAvailableDelete(s) ==
    /\ vpc[s] = "scan_delete"
    /\ locks' = [locks EXCEPT ![VOICE_NAMES[vi[s]]] = NoLock]
    /\ vpc' = [vpc EXCEPT ![s] = "write"]
    /\ UNCHANGED <<speakVars, cacheVars, sideVars, shellAlive, vcall, vi, vseen, vret>>

\* writeLock(voice, {pid: shellPid, reservedAt}): a plain writeFile, which
\* creates the file or replaces its content; reserveVoice returns the voice.
WriteLock(s) ==
    /\ vpc[s] = "write"
    /\ \E t \in Times :
          locks' = [locks EXCEPT ![VOICE_NAMES[vi[s]]] = [pid |-> ParentPid(s), at |-> t]]
    /\ vret' = [vret EXCEPT ![s] = VOICE_NAMES[vi[s]]]
    /\ vpc' = [vpc EXCEPT ![s] = "returned"]
    /\ UNCHANGED <<speakVars, cacheVars, sideVars, shellAlive, vcall, vi, vseen>>

NextReserve ==
    \E s \in Shells :
        \/ ReserveStart(s)
        \/ CleanupRead(s)
        \/ CleanupDelete(s)
        \/ IsAvailableRead(s)
        \/ IsAvailableDelete(s)
        \/ WriteLock(s)
        \/ ShellExits(s)

\* Markers of sessions that ended earlier may be lying around.
InitReserve ==
    /\ SpeakIdle
    /\ CacheIdle
    /\ SideIdle
    /\ locks \in [VoiceSet -> {NoLock, [pid |-> 0 - 1, at |-> "t1"]}]
    /\ shellAlive = [s \in Shells |-> TRUE]
    /\ vcall = NoCall
    /\ vpc = [s \in Shells |-> "idle"]
    /\ vi = [s \in Shells |-> 1]
    /\ vseen = [s \in Shells |-> NoLock]
    /\ vret = [s \in Shells |-> "none"]

SpecReserve == InitReserve /\ [][NextReserve]_vars

\* ---------------------------------------------- the audio cache, its calls
Present(files) == {k \in Keys : files[k] # NoFile}

\* fileInfos of cleanupCache: one stat per .mp3 file readdir listed.
FileInfos == {[name |-> k, mtime |-> cfiles[k].mtime, size |-> cfiles[k].mb] :
                  k \in Present(cfiles)}

RECURSIVE SumSizes(_)
SumSizes(infos) ==
    IF infos = {} THEN 0
    ELSE LET f == CHOOSE x \in infos : TRUE
         IN  f.size + SumSizes(infos \ {f})

\* A sort that puts the newest file first.
RECURSIVE SortNewestFirst(_)
SortNewestFirst(infos) ==
    IF infos = {} THEN <<>>
    ELSE LET f == CHOOSE x \in infos : \A y \in infos : x.mtime >= y.mtime
         IN  <<f>> \o SortNewestFirst(infos \ {f})

\* fileInfos.sort((a, b) => a.mtime - b.mtime): oldest first.
RECURSIVE SortByMtime(_)
SortByMtime(infos) ==
    IF infos = {} THEN <<>>
    ELSE LET f == CHOOSE x \in infos : \A y \in infos : x.mtime <= y.mtime
         IN  <<f>> \o SortByMtime(infos \ {f})

\* A first loop that finds no file too old.
ExpiredNever(info, at) == FALSE

\* The first loop of cleanupCache: unlink every listed file older than the
\* max age; fileInfos keeps its elements.
Expired(info, at) == at - info.mtime > MAX_CACHE_AGE_DAYS

AgePass(files, infos, at) ==
    [k \in Keys |->
        IF \E f \in infos : f.name = k /\ Expired(f, at) THEN NoFile ELSE files[k]]

\* The second loop, from element i of the sorted fileInfos: stop once
\* totalSize is within the bound; an unlink that throws (the file is gone)
\* leaves totalSize as it was.
RECURSIVE SizePass(_, _, _, _, _)
SizePass(files, sorted, i, totalSize, errs) ==
    IF i > Len(sorted) \/ totalSize <= MAX_CACHE_SIZE_MB
    THEN [files |-> files, errs |-> errs]
    ELSE LET f == sorted[i]
         IN  IF files[f.name] = NoFile
             THEN SizePass(files, sorted, i + 1, totalSize, errs + 1)
             ELSE SizePass([files EXCEPT ![f.name] = NoFile], sorted, i + 1,
                           totalSize - f.size, errs)

\* saveToCache(k, b): mkdir when the directory is missing, write the file,
\* start cleanupCache, return without awaiting it.
SaveToCacheDone(k, b) ==
    /\ ~CleanupRunning
    /\ WritesSinceRest < MaxBurst
    /\ cdir' = TRUE
    /\ cfiles' = [cfiles EXCEPT ![k] = [data |-> b.data, mb |-> b.mb, mtime |-> now]]
    /\ now' = now + 1
    /\ cclean' = [NoCleanup EXCEPT !.st = "started", !.quiet = cget.st # "read"]
    /\ clast' = [op |-> "save", key |-> k, blob |-> b, alone |-> cget.st # "read"]
    /\ cstored' = cstored \cup {k}
    /\ UNCHANGED <<speakVars, voiceVars, cget, cout>>

SaveToCache(k, b) == SaveToCacheDone(k, b) /\ UNCHANGED sideVars

\* cleanupCache: readdir, Date.now(), and the stat of every file.  (The
\* directory exists: saveToCache has just written into it.)
CleanupGather ==
    /\ cclean.st = "started"
    /\ cclean' = [cclean EXCEPT !.st = "gathered", !.infos = FileInfos, !.at = now]
    /\ UNCHANGED <<speakVars, voiceVars, sideVars, cfiles, now, cget, clast, cstored, cdir, cout>>

\* cleanupCache: the deletions by age.
CleanupAge ==
    /\ cclean.st = "gathered"
    /\ cfiles' = AgePass(cfiles, cclean.infos, cclean.at)
    /\ cclean' = [cclean EXCEPT !.st = "aged"]
    /\ UNCHANGED <<speakVars, voiceVars, sideVars, now, cget, clast, cstored, cdir, cout>>

\* cleanupCache: the deletions by size, over the same fileInfos.
CleanupSize ==
    /\ cclean.st = "aged"
    /\ LET r == SizePass(cfiles, SortByMtime(cclean.infos), 1, SumSizes(cclean.infos), 0)
       IN  /\ cfiles' = r.files
           /\ cclean' = [cclean EXCEPT !.st = "done", !.post = r.files, !.errs = r.errs]
    /\ UNCHANGED <<speakVars, voiceVars, sideVars, now, cget, clast, cstored, cdir, cout>>

\* getFromCache(k), readFile: a missing file throws, and the call returns
\* null.
GetReadDone(k) ==
    /\ cget.st \in {"idle", "returned"}
    /\ cget' = [st |-> IF cfiles[k] = NoFile THEN "returned" ELSE "read",
                key |-> k,
                audio |-> IF cfiles[k] = NoFile THEN NoAudio
                          ELSE [data |-> cfiles[k].data, mb |-> cfiles[k].mb],
                ret |-> NoAudio,
                prev |-> clast,
                known |-> k \in cstored,
                was |-> cfiles[k].mtime,
                at |-> 0 - 1]
    /\ clast' = [op |-> "get", key |-> k, blob |-> NoAudio, alone |-> ~CleanupRunning]
    /\ cclean' = IF CleanupRunning /\ cfiles[k] # NoFile
                 THEN [cclean EXCEPT !.quiet = FALSE] ELSE cclean
    /\ UNCHANGED <<speakVars, voiceVars, cfiles, now, cstored, cdir, cout>>

GetRead(k) == GetReadDone(k) /\ UNCHANGED sideVars

\* A touch that leaves the file's mtime as it was.
TouchKeeps(was) == was

\* The mtime writeFile gives the file.
TouchTime(was) == now

\* getFromCache, writeFile(path, audio): the touch, then return audio.
GetTouchDone ==
    /\ cget.st = "read"
    /\ WritesSinceRest < MaxBurst
    /\ cfiles' = [cfiles EXCEPT ![cget.key] =
                      [data |-> cget.audio.data, mb |-> cget.audio.mb,
                       mtime |-> TouchTime(cget.was)]]
    /\ now' = now + 1
    /\ cget' = [cget EXCEPT !.st = "returned", !.ret = cget.audio, !.at = now]
    /\ cclean' = IF CleanupRunning THEN [cclean EXCEPT !.quiet = FALSE] ELSE cclean
    /\ UNCHANGED <<speakVars, voiceVars, clast, cstored, cdir, cout>>

GetTouch == GetTouchDone /\ UNCHANGED sideVars

\* A count of the unlink calls made.
ClearCountsAttempts(attempted, thrown) == Cardinality(attempted)

\* count++ follows the unlink inside the try block.
ClearCount(attempted, thrown) == Cardinality(attempted \ thrown)

\* clearCache: 0 when the directory is missing; otherwise unlink every .mp3
\* file, going on past the unlink calls that throw (those of F), and return
\* the count.
ClearCache(F) ==
    /\ F \subseteq Present(cfiles)
    /\ cfiles' = [k \in Keys |-> IF k \in F THEN cfiles[k] ELSE NoFile]
    /\ cout' = [cout EXCEPT !.op = "clear", !.dir = cdir, !.before = Present(cfiles),
                             !.failed = F, !.count = ClearCount(Present(cfiles), F),
                             !.alone = ~CleanupRunning /\ cget.st # "read",
                             !.after = clast.op]
    /\ clast' = [op |-> "clear", key |-> "<none>", blob |-> NoAudio,
                 alone |-> ~CleanupRunning /\ cget.st # "read"]
    /\ cclean' = IF CleanupRunning /\ Present(cfiles) # F
                 THEN [cclean EXCEPT !.quiet = FALSE] ELSE cclean
    /\ UNCHANGED <<speakVars, voiceVars, sideVars, now, cget, cstored, cdir>>

\* getCacheStats: zeroes when the directory is missing; otherwise the number
\* of .mp3 files and the sum of their sizes.
GetCacheStats ==
    /\ cout' = [cout EXCEPT !.op = "stats",
                             !.entries = Cardinality(Present(cfiles)),
                             !.sizeBytes = SumSizes(FileInfos),
                             !.alone = ~CleanupRunning /\ cget.st # "read",
                             !.after = IF clast.op = "clear" /\ cout.op = "clear" /\ cout.alone
                                          /\ cout.failed = {}
                                       THEN "clean clear" ELSE clast.op]
    /\ clast' = [op |-> "stats", key |-> "<none>", blob |-> NoAudio,
                 alone |-> ~CleanupRunning /\ cget.st # "read"]
    /\ UNCHANGED <<speakVars, voiceVars, sideVars, cfiles, now, cclean, cget, cstored, cdir>>

\* Time passes while no cache call is running.
CacheRests ==
    /\ ~CleanupRunning
    /\ cget.st \in {"idle", "returned"}
    /\ now + AgeJump <= MaxClock
    /\ now' = now + AgeJump
    /\ UNCHANGED <<speakVars, voiceVars, sideVars, cfiles, cclean, cget, clast, cstored, cdir, cout>>

\* saveToCache and getFromCache under any interleaving with the cleanup
\* pass and with each other.
NextCache ==
    \/ \E k \in Keys, b \in Blobs : SaveToCache(k, b)
    \/ CleanupGather
    \/ CleanupAge
    \/ CleanupSize
    \/ \E k \in Keys : GetRead(k)
    \/ GetTouch
    \/ CacheRests

InitCache == SpeakIdle /\ VoiceIdle /\ CacheIdle /\ SideIdle

SpecCache == InitCache /\ [][NextCache]_vars

\* ------------------------------------- the audio cache, one call at a time
\* No cache call begins while a cleanup pass or a getFromCache is running.
CacheQuiet == ~CleanupRunning /\ cget.st # "read"

NextCleanup ==
    \/ \E k \in Keys, b \in Blobs : CacheQuiet /\ SaveToCache(k, b)
    \/ CleanupGather
    \/ CleanupAge
    \/ CleanupSize
    \/ \E k \in Keys : CacheQuiet /\ GetRead(k)
    \/ GetTouch
    \/ CacheRests

SpecCleanup == InitCache /\ [][NextCleanup]_vars

NextClear ==
    \/ \E k \in Keys, b \in Blobs : CacheQuiet /\ SaveToCache(k, b)
    \/ CleanupGather
    \/ CleanupAge
    \/ CleanupSize
    \/ \E F \in SUBSET Keys : CacheQuiet /\ ClearCache(F)
    \/ CacheQuiet /\ GetCacheStats
    \/ CacheRests

SpecClear == InitCache /\ [][NextClear]_vars

\* ----------------------------- the inner try block of the drain loop, by step
\* One process holds play.lock and drains a queue that other invocations
\* filled; each message is named by the cache file its CacheKey maps to.
\* The cleanup pass saveToCache starts runs beside the loop.
MaxServe == 3

ServeKeys == {"k1", "k2"}

ServeQueues == UNION {[1 .. n -> ServeKeys] : n \in 1 .. MaxServe}

\* What the loop did for one message: what getFromCache answered (look, got),
\* the textToSpeech calls and the audio they gave, whether saveToCache
\* returned, the bytes handed to playAudio and whether saveToCache had
\* returned by then, the recordUsage calls that went through, and whether
\* the loop is through with the message.
NewServed(k) ==
    [key |-> k, look |-> "pending", got |-> NoAudio, synth |-> 0, audio |-> NoAudio,
     stored |-> FALSE, played |-> NoAudio, storedFirst |-> FALSE, usage |-> 0,
     over |-> FALSE]

Current == Len(slog)

serviceKeeps == <<speakVars, voiceVars, frontVars, pureVars>>

\* while ((message = await takeFromQueue())): the next message and its key.
SvTake ==
    /\ sv.st = "loop"
    /\ sv.q # <<>>
    /\ sv' = [st |-> "lookup", q |-> Tail(sv.q), key |-> Head(sv.q), audio |-> NoAudio]
    /\ slog' = Append(slog, NewServed(Head(sv.q)))
    /\ UNCHANGED <<serviceKeeps, cacheVars>>

\* takeFromQueue returns null: the loop ends.
SvEnd ==
    /\ sv.st = "loop"
    /\ sv.q = <<>>
    /\ sv' = [sv EXCEPT !.st = "done"]
    /\ UNCHANGED <<serviceKeeps, cacheVars, slog>>

\* getFromCache(cacheKey), readFile: when it throws the call returns null,
\* and the loop goes on to textToSpeech.
SvGetRead ==
    /\ sv.st = "lookup"
    /\ GetReadDone(sv.key)
    /\ IF cfiles[sv.key] = NoFile
       THEN /\ sv' = [sv EXCEPT !.st = "synth"]
            /\ slog' = [slog EXCEPT ![Current].look = "miss"]
       ELSE /\ sv' = [sv EXCEPT !.st = "touch"]
            /\ UNCHANGED slog
    /\ UNCHANGED <<frontVars, pureVars>>

\* getFromCache, writeFile: the call returns the bytes it read, or null when
\* the write throws.
SvGetTouch ==
    /\ sv.st = "touch"
    /\ \/ /\ GetTouchDone
          /\ sv' = [sv EXCEPT !.st = "play_hit", !.audio = cget.audio]
          /\ slog' = [slog EXCEPT ![Current].look = "hit", ![Current].got = cget.audio]
       \/ /\ cget' = [cget EXCEPT !.st = "returned", !.ret = NoAudio]
          /\ sv' = [sv EXCEPT !.st = "synth"]
          /\ slog' = [slog EXCEPT ![Current].look = "miss"]
          /\ UNCHANGED <<speakVars, voiceVars, cfiles, now, cclean, clast, cstored, cdir,
                         cout>>
    /\ UNCHANGED <<frontVars, pureVars>>

\* if (cached) { await playAudio(cached, ...); continue; }  When playAudio
\* throws, the catch block reports the error and the loop goes on.
SvPlayHit ==
    /\ sv.st = "play_hit"
    /\ sv' = [sv EXCEPT !.st = "loop"]
    /\ slog' = [slog EXCEPT ![Current].played = sv.audio, ![Current].over = TRUE]
    /\ UNCHANGED <<serviceKeeps, cacheVars>>

\* const audio = await textToSpeech(...): an audio buffer, or an API error
\* that the catch block reports.
SvSynth ==
    /\ sv.st = "synth"
    /\ \/ \E b \in Blobs :
             /\ sv' = [sv EXCEPT !.st = "save", !.audio = b]
             /\ slog' = [slog EXCEPT ![Current].synth = @ + 1, ![Current].audio = b]
       \/ /\ sv' = [sv EXCEPT !.st = "loop"]
          /\ slog' = [slog EXCEPT ![Current].synth = @ + 1, ![Current].over = TRUE]
    /\ UNCHANGED <<serviceKeeps, cacheVars>>

\* await saveToCache(cacheKey, audio): when mkdir or writeFile throws, the
\* catch block reports the error and the message is not played.
SvSave ==
    /\ sv.st = "save"
    /\ \/ /\ SaveToCacheDone(sv.key, sv.audio)
          /\ sv' = [sv EXCEPT !.st = "play"]
          /\ slog' = [slog EXCEPT ![Current].stored = TRUE]
       \/ /\ sv' = [sv EXCEPT !.st = "loop"]
          /\ slog' = [slog EXCEPT ![Current].over = TRUE]
          /\ UNCHANGED <<speakVars, voiceVars, cacheVars>>
    /\ UNCHANGED <<frontVars, pureVars>>

\* await playAudio(audio, ...): when the player fails, the catch block
\* reports the error, and recordUsage is not reached.
SvPlay ==
    /\ sv.st = "play"
    /\ \/ /\ sv' = [sv EXCEPT !.st = "usage"]
          /\ slog' = [slog EXCEPT ![Current].played = sv.audio,
                                  ![Current].storedFirst = slog[Current].stored]
       \/ /\ sv' = [sv EXCEPT !.st = "loop"]
          /\ slog' = [slog EXCEPT ![Current].played = sv.audio,
                                  ![Current].storedFirst = slog[Current].stored,
                                  ![Current].over = TRUE]
    /\ UNCHANGED <<serviceKeeps, cacheVars>>

\* await recordUsage(message.text.length), then speakBudgetWarnings.
SvUsage ==
    /\ sv.st = "usage"
    /\ sv' = [sv EXCEPT !.st = "loop"]
    /\ slog' = [slog EXCEPT ![Current].usage = @ + 1, ![Current].over = TRUE]
    /\ UNCHANGED <<serviceKeeps, cacheVars>>

NextService ==
    \/ SvTake
    \/ SvEnd
    \/ SvGetRead
    \/ SvGetTouch
    \/ SvPlayHit
    \/ SvSynth
    \/ SvSave
    \/ SvPlay
    \/ SvUsage
    \/ CleanupGather
    \/ CleanupAge
    \/ CleanupSize
    \/ CacheRests

InitService ==
    /\ SpeakIdle
    /\ VoiceIdle
    /\ CacheIdle
    /\ FrontIdle
    /\ PureIdle
    /\ sv \in {[NoService EXCEPT !.st = "loop", !.q = q] : q \in ServeQueues}
    /\ slog = <<>>

SpecService == InitService /\ [][NextService]_vars

\* ------------------------------------------------------- the cache key
\* Strings are sequences of pieces: a letter, the separator "|", or the
\* suffix ":whisper".
Texts == {<<>>, <<"a">>, <<"a", "|", "v">>}

VoiceIds == {<<"v">>, <<"v", "|", "n">>, <<"v", ":whisper">>}

Speeds == {"normal", "fast"}

Requests == [text : Texts, voiceId : VoiceIds, speed : Speeds,
             whisper : {"true", "false", Undefined}]

\* message.whisper ?? false
Whisper(m) == IF m.whisper = Undefined THEN FALSE ELSE m.whisper = "true"

\* A key that leaves the whisper setting out.
NoWhisperSuffix(w) == <<>>

WhisperSuffix(w) == IF w THEN <<":whisper">> ELSE <<>>

\* The CacheKey processQueue builds for a message.
CacheKeyOf(m) ==
    [text |-> m.text, voiceId |-> m.voiceId \o WhisperSuffix(Whisper(m)), speed |-> m.speed]

\* getCacheHash: the string `${text}|${voiceId}|${speed}` that is digested.
\* The digest itself (16 hex digits of SHA-256) is taken to tell any two of
\* these strings apart.
GetCacheHash(key) == key.text \o <<"|">> \o key.voiceId \o <<"|">> \o <<key.speed>>

GetCachePath(key) == GetCacheHash(key) \o <<".mp3">>

ComputeKeys ==
    /\ kout = <<>>
    /\ kout' = <<GetCachePath(CacheKeyOf(kreq[1])), GetCachePath(CacheKeyOf(kreq[2]))>>
    /\ UNCHANGED <<speakVars, voiceVars, cacheVars, frontVars, serviceVars, kreq>>

NextKey == ComputeKeys

InitKey ==
    /\ SpeakIdle
    /\ VoiceIdle
    /\ CacheIdle
    /\ FrontIdle
    /\ ServiceIdle
    /\ kreq \in Requests \X Requests
    /\ kout = <<>>

SpecKey == InitKey /\ [][NextKey]_vars

\* ------------------------------------------------------------------ claims
Holders == {p \in Procs : Holding(p)}

\* C1: at most one live process has had acquirePlaybackLock return true
\* without having released, under any interleaving of the lock's file steps
\* (stated where the claim is surest: the filesystem answers without errors).
C1_MutualExclusion == ~fsFaulty => Cardinality(Holders) <= 1

\* C7: no call of acquirePlaybackLock makes more than two creation attempts,
\* whatever markers other processes create or abandon in between (stated for
\* a filesystem that answers without errors).
C7_AtMostTwoAttempts == ~fsFaulty => \A p \in Procs : attempts[p] <= 2

\* C8: when the stale marker's deletion fails the call returns false: it does
\* not go on to another creation attempt.
C8_FailedDeleteReturns == \A p \in Procs : unlinkErr[p] => pc[p] # "open"

Returned(p) == lockResult[p] # "none"

\* C5: with the calls made one after another on a healthy filesystem, a call
\* that begins while a live process holds the lock returns false, a call that
\* begins when no marker exists returns true, and a release leaves no marker
\* of the releasing process behind.
C5_TwoOwners ==
    \A p \in Procs :
        /\ (Returned(p) /\ startKind[p] = "live") => lockResult[p] = "false"
        /\ (Returned(p) /\ startKind[p] = "none") => lockResult[p] = "true"
        /\ pc[p] = "done" => marker.creator # p

C5_Witness ==
    \E a, b, c \in Procs :
        /\ pc[a] = "done" /\ startKind[a] = "none"
        /\ lockResult[b] = "false" /\ startKind[b] = "live"
        /\ pc[c] = "holding" /\ startKind[c] = "none"

\* C6: a call that begins when play.lock records the pid of a dead process
\* returns true, and play.lock is then the file this call created.
C6_StaleReclaim ==
    \A p \in Procs :
        (Returned(p) /\ startKind[p] = "dead") =>
            /\ lockResult[p] = "true"
            /\ pc[p] = "holding" => marker = [creator |-> p, written |-> TRUE]

C6_Witness ==
    \E p, q \in Procs :
        /\ pc[q] = "crashed" /\ lockResult[q] = "true"
        /\ startKind[p] = "dead" /\ pc[p] = "holding" /\ marker.creator = p

Quiescent == \A p \in Speakers : pc[p] \in {"done", "denied"}

\* The entry of invocation i was handed to a drain loop by takeFromQueue.
Served(i) == \E p \in Procs : i \in tookBy[p]

\* C2: an entry enqueued by a process that was refused the lock by a live
\* holder is serviced by that holder before it releases: once every process
\* has returned and the lock is free, the entry of every refused process has
\* been dequeued (stated for runs with no filesystem error, no killed process,
\* no exception out of a drain loop, and the holders' own entries dequeued).
C2_RefusedEntryServed ==
    (/\ Quiescent
     /\ marker = NoMarker
     /\ ~fsFaulty
     /\ \A p \in Procs : ~aborted[p]
     /\ \A i \in Speakers : pc[i] = "done" => Served(i))
        => \A i \in Speakers : pc[i] = "denied" => Served(i)

Rank(e) == PRIORITY_ORDER(e.pri)

OfRank(s, r) == SelectSeq(s, LAMBDA e : Rank(e) = r)

\* The stable sort by rank: the entries of rank 0 in their order, then rank 1, ...
StableSort(s) == OfRank(s, 0) \o OfRank(s, 1) \o OfRank(s, 2) \o OfRank(s, 3)

\* C3: after any sequence of addToQueue calls on the empty queue, what
\* takeFromQueue has returned followed by what queue.json still holds is the
\* stable sort of the enqueue sequence by priority rank.
C3_StableSort == deqLog \o qfile = StableSort(enqLog)

PrisOf(s) == [i \in 1 .. Len(s) |-> s[i].pri]

C3_Witness ==
    /\ PrisOf(enqLog) = <<"critical", "low", "normal", "critical", "high">>
    /\ PrisOf(deqLog) = <<"critical", "critical", "high", "normal", "low">>
    /\ [i \in 1 .. Len(deqLog) |-> deqLog[i].id] = <<1, 4, 5, 3, 2>>

IsSorted(s) == \A i, j \in 1 .. Len(s) : i < j => Rank(s[i]) <= Rank(s[j])

\* C4: queue.json is ordered by priority rank in every state, whatever the
\* interleaving of the reads and writes of addToQueue and takeFromQueue.
C4_QueueSorted == IsSorted(qfile)

C4_Witness ==
    \E p, q \in Speakers :
        /\ pc[p] = "add_write" /\ pc[q] \in {"take_trunc", "take_write"}
        /\ Len(lq[p]) = 2 /\ lq[p][1].id = p /\ Rank(lq[p][1]) < Rank(lq[p][2])

\* C9: only a process whose acquirePlaybackLock returned true, and that has
\* not released, is inside takeFromQueue or services an entry; a process
\* refused the lock has taken nothing and has returned.
C9_OnlyHolderTakes ==
    \A p \in Procs :
        /\ (pc[p] \in {"holding", "take_trunc", "take_write", "service", "fallback"}
              \/ tookBy[p] # {}) => lockResult[p] = "true"
        /\ lockResult[p] = "false" => pc[p] = "denied"

C9_Witness ==
    \E p, q \in Speakers :
        /\ lockResult[p] = "false" /\ pc[p] = "denied"
        /\ pc[q] = "service" /\ msg[q].id = p

IdsOf(s) == {s[i].id : i \in 1 .. Len(s)}

\* C10: whatever entries fail, with or without the local-TTS fallback, the
\* holder that has drained the queue and returned has played every entry that
\* did not fail, has reported one error per failing entry and has left
\* queue.json empty.
C10_PartialFailureTolerant ==
    \A p \in Procs :
        pc[p] = "done" =>
            /\ (IdsOf(enqLog) \ failed) \subseteq played
            /\ errors[p] = Cardinality(failed)
            /\ qfile = <<>>

ReleaseReturns(p) ==
    /\ pc[p] \in {"release", "release2", "release3"}
    /\ pc'[p] \in {"done", "done2", "done3"}

\* C12: every call of releasePlaybackLock on a healthy filesystem completes
\* without error and leaves no marker and no open handle, also when no
\* marker exists; a call made in the state a release leaves behind (no
\* marker, no handle) changes nothing, so two calls in a row equal one.
C12_ReleaseIdempotent ==
    [][\A p \in Procs :
          ReleaseReturns(p) =>
              /\ marker' = NoMarker
              /\ ~lockHandle'[p]
              /\ ~aborted'[p]
              /\ (marker = NoMarker /\ ~lockHandle[p]) =>
                     (marker' = marker /\ lockHandle' = lockHandle)]_vars

C12_Witness ==
    \E p \in Procs : pc[p] = "done3" /\ lockResult[p] = "true" /\ marker = NoMarker

\* C13: starting from a queue.json that is not a valid array of messages,
\* a takeFromQueue returns null, and addToQueue calls leave exactly the
\* entries they added, in order, in a valid file ([m] after the first);
\* nothing of the corrupted file is ever dequeued.
C13_CorruptQueueResets ==
    /\ enqLog = <<>> => \A i \in 1 .. Len(deqLog) : deqLog[i] = NoMsg
    /\ (enqLog # <<>> /\ deqLog = <<>>) => (qkind = "array" /\ qfile = StableSort(enqLog))
    /\ \A i \in 1 .. Len(deqLog) :
          deqLog[i] = NoMsg \/ \E j \in 1 .. Len(enqLog) : deqLog[i] = enqLog[j]

C13_Witness ==
    /\ Len(enqLog) = 1
    /\ qkind = "array"
    /\ qfile = enqLog
    /\ deqLog = <<>>

\* C14: under any interleaving of reserveVoice calls by sessions whose
\* shells are alive, no two calls return the same voice (nothing releases a
\* voice here, so the first reservation is still held).
C14_VoiceExclusive ==
    \A s, t \in Shells :
        (s # t /\ shellAlive[s] /\ shellAlive[t] /\ vret[s] \in VoiceSet) => vret[s] # vret[t]

\* The voice had no marker, or one of a dead owner, when the last call began.
FreeAtCall(v) ==
    \/ vcall.before[v].pid = 0
    \/ ~(vcall.before[v].pid \in Shells /\ vcall.alive[vcall.before[v].pid])

IndexOf(v) == CHOOSE i \in 1 .. Len(VOICE_NAMES) : VOICE_NAMES[i] = v

\* C15: a reserveVoice call returns the first voice of the list that had no
\* marker or a marker of a dead owner, and leaves that voice with a marker
\* and every live reservation as it was; it returns null, changing no live
\* reservation, when every voice is held by a live owner.
C15_FirstFreeVoice ==
    vcall.op = "reserve" =>
        /\ \A v \in VoiceSet : (~FreeAtCall(v) /\ v # vcall.ret) => locks[v] = vcall.before[v]
        /\ IF \A v \in VoiceSet : ~FreeAtCall(v)
           THEN vcall.ret = "null"
           ELSE /\ vcall.ret \in VoiceSet
                /\ FreeAtCall(vcall.ret)
                /\ \A v \in VoiceSet : IndexOf(v) < IndexOf(vcall.ret) => ~FreeAtCall(v)
                /\ locks[vcall.ret].pid # 0

C15_Witness ==
    /\ vcall.op = "reserve"
    /\ vcall.ret = "jordan"
    /\ vcall.before["jordan"].pid = 0
    /\ \A v \in VoiceSet \ {"jordan"} : ~FreeAtCall(v)

\* C16: the marker reserveVoice writes records the pid of the session's
\* shell, a process that is alive when the command returns; as long as the
\* shell recorded in a marker is alive, no reserveVoice call hands the voice
\* out and getVoiceStatuses reports it unavailable.
C16_SessionScoped ==
    /\ (vcall.op = "reserve" /\ vcall.ret \in VoiceSet) =>
           /\ locks[vcall.ret].pid = vcall.shell
           /\ vcall.alive[vcall.shell]
    /\ \A v \in VoiceSet :
          ~FreeAtCall(v) =>
              /\ vcall.op = "reserve" => vcall.ret # v
              /\ vcall.op = "statuses" => ~vcall.out[v].available

C16_Witness ==
    \E v \in VoiceSet :
        /\ vcall.op = "reserve" /\ vcall.ret = v
        /\ vcall.before[v].pid \in Shells \ {vcall.shell}
        /\ ~vcall.alive[vcall.before[v].pid]

\* The name the last releaseVoice call was about, lower-cased.
NameAtCall == ToLowerCase(IF vcall.voice # Undefined THEN vcall.voice ELSE vcall.env)

\* C17: releaseVoice of a known voice deletes the marker and returns true
\* when the marker records the caller's shell or a dead owner; when a
\* different live owner holds the voice it returns false and changes no
\* marker; no other marker is ever touched.
C17_ReleaseOnlyOwnOrStale ==
    (vcall.op = "release" /\ NameAtCall \in VoiceSet) =>
        LET b == vcall.before[NameAtCall]
        IN /\ \A v \in VoiceSet \ {NameAtCall} : locks[v] = vcall.before[v]
           /\ IF b.pid # 0 /\ b.pid # vcall.shell /\ ~FreeAtCall(NameAtCall)
              THEN vcall.ret = "false" /\ locks = vcall.before
              ELSE vcall.ret = "true" /\ locks[NameAtCall] = NoLock

C17_Witness ==
    /\ vcall.op = "release"
    /\ NameAtCall \in VoiceSet
    /\ vcall.ret = "false"
    /\ locks[NameAtCall].pid \in Shells \ {vcall.shell}

\* C18: releaseVoice with a name that is not a voice name, or with no
\* argument and no TALKBACK_VOICE, returns false and changes no marker.
C18_UnknownVoiceRejected ==
    (vcall.op = "release" /\ NameAtCall \notin VoiceSet) =>
        (vcall.ret = "false" /\ locks = vcall.before)

C18_Witness ==
    /\ vcall.op = "release"
    /\ vcall.voice = "bob"
    /\ vcall.ret = "false"
    /\ \E v \in VoiceSet : locks[v].pid = vcall.shell

\* C19: getVoiceStatuses reports a voice available exactly when it had no
\* marker or a marker of a dead owner, and the marker's pid and time
\* otherwise; when it returns every marker of a dead owner is gone and every
\* marker of a live owner is as it was.
C19_StatusesSelfHeal ==
    vcall.op = "statuses" =>
        \A v \in VoiceSet :
            /\ vcall.out[v].available <=> FreeAtCall(v)
            /\ ~FreeAtCall(v) =>
                  /\ vcall.out[v].pid = vcall.before[v].pid
                  /\ vcall.out[v].since = vcall.before[v].at
                  /\ locks[v] = vcall.before[v]
            /\ FreeAtCall(v) => locks[v] = NoLock

C19_Witness ==
    /\ vcall.op = "statuses"
    /\ \E v, w \in VoiceSet :
          /\ vcall.before[v].pid # 0 /\ FreeAtCall(v) /\ locks[v] = NoLock
          /\ ~FreeAtCall(w) /\ ~vcall.out[w].available

\* C20: a getFromCache(k) that begins right after saveToCache(k, b), no cache
\* call in between and none running during the save, returns exactly b; a
\* getFromCache of a key never stored returns null.
C20_CacheRoundTrip ==
    cget.st = "returned" =>
        /\ (cget.prev.op = "save" /\ cget.prev.alone /\ cget.prev.key = cget.key)
               => cget.ret = cget.prev.blob
        /\ ~cget.known => cget.ret = NoAudio

\* A cleanup pass has completed and no other cache call ran during it.
PassDone == cclean.st = "done" /\ cclean.quiet

KeptByPass == {f \in cclean.infos : cclean.post[f.name] # NoFile}

DeletedByPass == cclean.infos \ KeptByPass

\* C21: a cleanup pass over more than the max size in which no unlink threw
\* deletes the files of oldest last use first: none it deleted was used more
\* recently than one it kept, what it kept is within the bound, and it
\* stopped as soon as that was so.
C21_LruEviction ==
    (PassDone /\ cclean.errs = 0 /\ SumSizes(cclean.infos) > MAX_CACHE_SIZE_MB) =>
        /\ \A d \in DeletedByPass, k \in KeptByPass : d.mtime < k.mtime
        /\ SumSizes(KeptByPass) <= MAX_CACHE_SIZE_MB
        /\ \A d \in DeletedByPass :
              (\A e \in DeletedByPass : e.mtime <= d.mtime)
                  => SumSizes(KeptByPass) + d.size > MAX_CACHE_SIZE_MB

\* The two files of oldest last use went, and the newest stayed.
C21_Witness ==
    /\ PassDone /\ cclean.errs = 0
    /\ Cardinality(DeletedByPass) = 2
    /\ Cardinality(KeptByPass) = 1

NotExpiredAt(f, at) == at - f.mtime <= MAX_CACHE_AGE_DAYS

\* C22: in a cleanup pass, when the files not older than the max age fit in
\* the max size together, none of them is deleted.
C22_SizeAfterAge ==
    LET fresh == {f \in cclean.infos : NotExpiredAt(f, cclean.at)}
    IN  (PassDone /\ SumSizes(fresh) <= MAX_CACHE_SIZE_MB) =>
            \A f \in fresh : cclean.post[f.name] # NoFile

\* C23: after a cleanup pass in which no unlink threw and during which no
\* other cache call ran, no file is older than the max age and the files
\* together are within the max size.
C23_BoundsAfterCleanup ==
    (PassDone /\ cclean.errs = 0) =>
        /\ \A f \in KeptByPass : NotExpiredAt(f, cclean.at)
        /\ Present(cclean.post) = {f.name : f \in KeptByPass}
        /\ SumSizes(KeptByPass) <= MAX_CACHE_SIZE_MB

\* The pass deleted a file for its age and kept a younger one.
C23_Witness ==
    /\ PassDone /\ cclean.errs = 0
    /\ \E f \in DeletedByPass : ~NotExpiredAt(f, cclean.at)
    /\ KeptByPass # {}

\* The getFromCache call last made returned bytes, before the cleanup pass
\* last made had begun.
HitBeforePass ==
    /\ cget.st = "returned" /\ cget.ret # NoAudio
    /\ PassDone /\ cclean.errs = 0
    /\ cget.at < cclean.at

\* C24: when getFromCache(k) has returned bytes and no cache call has begun
\* since, no file is newer than k's; and a later cleanup pass that deletes k
\* for size has deleted every file last used before that hit.
C24_HitRefreshesRecency ==
    /\ (cget.st = "returned" /\ cget.ret # NoAudio /\ clast.op = "get") =>
          /\ cfiles[cget.key] # NoFile
          /\ \A k \in Present(cfiles) : cfiles[k].mtime <= cfiles[cget.key].mtime
    /\ (HitBeforePass /\ cclean.post[cget.key] = NoFile) =>
          \A f \in cclean.infos : f.mtime < cget.at => cclean.post[f.name] = NoFile

\* The hit saved k: a file saved after k, and not used since, went in its
\* place.
C24_Witness ==
    /\ HitBeforePass
    /\ cclean.post[cget.key] # NoFile
    /\ \E f \in DeletedByPass : cget.was < f.mtime /\ f.mtime < cget.at

\* C25: clearCache returns the number of files it deleted, which are all but
\* those whose unlink threw, and 0 when the directory is missing; after a
\* clearCache in which no unlink threw, with no other cache call running or
\* begun since, getCacheStats reports 0 entries and 0 bytes.
C25_ClearCountsDeleted ==
    /\ cout.op # "none" =>
          /\ cout.count = Cardinality(cout.before \ cout.failed)
          /\ ~cout.dir => cout.count = 0
    /\ (clast.op = "clear" /\ cout.alone) => Present(cfiles) = cout.failed
    /\ (cout.op = "stats" /\ cout.after = "clean clear" /\ cout.alone) =>
          cout.entries = 0 /\ cout.sizeBytes = 0

\* One unlink threw, and clearCache deleted the other file.
C25_Witness ==
    /\ clast.op = "clear"
    /\ Cardinality(cout.failed) = 1
    /\ cout.count = 1

SameSpeech == /\ kreq[1].text = kreq[2].text
              /\ kreq[1].voiceId = kreq[2].voiceId
              /\ kreq[1].speed = kreq[2].speed

EndsInWhisper(v) == v # <<>> /\ v[Len(v)] = ":whisper"

\* C26: two requests with the same text, voice id (not ending in ":whisper")
\* and speed map to different cache files when one is a whisper request and
\* the other is not, and to the same file when their whisper settings agree.
C26_WhisperInCacheKey ==
    (kout # <<>> /\ SameSpeech) =>
        /\ (~EndsInWhisper(kreq[1].voiceId) /\ Whisper(kreq[1]) # Whisper(kreq[2]))
              => kout[1] # kout[2]
        /\ Whisper(kreq[1]) = Whisper(kreq[2]) => kout[1] = kout[2]

C26_Witness ==
    /\ kout # <<>> /\ SameSpeech
    /\ kreq[1].whisper = "true" /\ kreq[2].whisper = Undefined
    /\ kout[1] # kout[2]

\* The ids of the entries queue.json would yield to a reader.
Persisted == IdsOf(ReadQueue)

\* C29: an invocation whose addToQueue could not write queue.json has left
\* speak with the error, without an acquirePlaybackLock call; and the step
\* in which the write fails, while no other process is inside a write of
\* queue.json, leaves every entry the call had read still in the file,
\* unless a drain loop has taken it.
C29_EnqueueFailureSurfaced ==
    /\ [](\A p \in Procs : pc[p] = "rejected" =>
              acqCalls[p] = 0 /\ lockResult[p] = "none" /\ ~wrote[p])
    /\ [][\A p \in Procs :
            (/\ pc[p] \in {"add_trunc", "add_write"}
             /\ pc'[p] = "rejected"
             /\ \A q \in Procs \ {p} : pc[q] \notin {"add_write", "take_write"})
                => \A id \in IdsOf(lq[p]) \ {p} :
                       \/ id \in Persisted'
                       \/ \E q \in Procs : msg[q].id = id \/ id \in tookBy[q]]_vars

\* C30: an invocation on the queued path calls acquirePlaybackLock at most
\* once, only after addToQueue has written its entry, tries to create
\* play.lock only inside that call, and has made the call when it returns
\* from processQueue.
C30_EnqueueBeforeAcquire ==
    \A p \in Procs :
        /\ acqCalls[p] <= 1
        /\ acqCalls[p] = 1 => wrote[p]
        /\ (attempts[p] > 0 \/ InAcquire(p)) => (acqCalls[p] = 1 /\ wrote[p])
        /\ pc[p] \in {"done", "denied"} => acqCalls[p] = 1

\* Both outcomes of the one call: an invocation that was refused, and one
\* that drained the queue and returned.
C30_Witness ==
    \E p, q \in Speakers :
        /\ pc[p] = "denied" /\ acqCalls[p] = 1 /\ wrote[p]
        /\ pc[q] = "done" /\ acqCalls[q] = 1 /\ tookBy[q] # {}

\* The minute of the day t lies in the half-open stretch of the day that
\* begins at the start of the range and runs forward to its end, through
\* midnight when the end is the earlier time.
DuringRange(range, t) ==
    LET sinceStart == (t.hour * 60 + t.minute + 1440
                          - (range.startHour * 60 + range.startMinute)) % 1440
        length == (range.endHour * 60 + range.endMinute + 1440
                      - (range.startHour * 60 + range.startMinute)) % 1440
    IN  sinceStart < length

\* The clock stands in a range of the enabled quiet hours.
DuringQuietHours ==
    /\ quietCfg.enabled
    /\ \E i \in 1 .. Len(quietCfg.ranges) : DuringRange(quietCfg.ranges[i], clock)

\* The invocation has added nothing, tried no lock and played nothing.
Silent(p) ==
    /\ ~wrote[p]
    /\ lq[p] = <<>>
    /\ p \notin IdsOf(ReadQueue)
    /\ acqCalls[p] = 0
    /\ attempts[p] = 0
    /\ ~sounded[p]
    /\ p \notin playing

\* C28: an invocation called during an enabled quiet-hours range with a
\* priority other than critical has returned at the gate, having added
\* nothing to the queue, tried no lock and played nothing; an invocation
\* with priority critical never returns at the gate, and outside quiet hours
\* none does.
C28_QuietHoursGate ==
    \A p \in QuietCallers :
        pc[p] # "called" =>
            /\ (DuringQuietHours /\ opt[p].pri # "critical") => (pc[p] = "quiet" /\ Silent(p))
            /\ (opt[p].pri = "critical" \/ ~DuringQuietHours) => pc[p] # "quiet"

\* At 23:59, inside a range from 22:00 to 06:00, a high-priority call has
\* returned silently at the gate.
C28_Witness ==
    \E p \in QuietCallers :
        /\ pc[p] = "quiet"
        /\ Silent(p)
        /\ opt[p].pri = "high"
        /\ clock = [hour |-> 23, minute |-> 59]
        /\ quietCfg.ranges = <<[startHour |-> 22, startMinute |-> 0,
                                endHour |-> 6, endMinute |-> 0]>>

\* At the same time a critical call went through the queue and played.
C28_CriticalHeard ==
    \E p \in QuietCallers :
        /\ pc[p] = "done"
        /\ opt[p].pri = "critical"
        /\ DuringQuietHours
        /\ p \in played
        /\ sounded[p]

\* C27: at no time do two processes play audio at once.
C27_NoAudioOverlap == Cardinality(playing) <= 1

\* Process p removes play.lock in this step.
UnlinksMarker(p) ==
    /\ pc[p] \in {"unlink", "release"}
    /\ pc'[p] # pc[p]
    /\ marker.creator # 0
    /\ marker'.creator = 0

\* C36: on a healthy file system, every unlink of play.lock, by
\* releasePlaybackLock or by the stale-reclaim step of acquirePlaybackLock,
\* removes a marker created by the unlinking process or by a process that
\* is dead at that time.
C36_NoForeignLiveUnlink ==
    [][\A p \in Procs :
          (~fsFaulty /\ UnlinksMarker(p)) =>
              (marker.creator = p \/ ~Alive(marker.creator))]_vars

\* C37: on a healthy file system, isLockStale never answers true to a
\* process while play.lock is the marker of another, live process: neither
\* at once on reading it (no file, or no number in it), nor after the probe
\* of the pid it read.
C37_LiveMarkerNotStale ==
    [][\A p \in Procs :
          (~fsFaulty /\ pc[p] \in {"readlock", "probe"} /\ pc'[p] = "unlink") =>
              ~(marker.creator \notin {0, p} /\ Alive(marker.creator))]_vars

\* No process is between the truncation and the data of a write of
\* queue.json, and none was killed.
QueueAtRest ==
    \A q \in Procs : pc[q] \notin {"add_write", "take_write", "crashed"}

\* The entry is in the hands of a takeFromQueue, or was returned by one.
TakenFromQueue(id) == \E q \in Procs : msg[q].id = id \/ id \in tookBy[q]

\* C34: on a healthy file system, whenever no write of queue.json is under
\* way, every entry whose addToQueue has returned is in queue.json or has
\* been taken by a takeFromQueue.
C34_NoLostEntry ==
    (~fsFaulty /\ QueueAtRest) =>
        \A p \in Procs : wrote[p] => (p \in Persisted \/ TakenFromQueue(p))

\* C35: on a healthy file system, no takeFromQueue returns an entry that a
\* takeFromQueue has returned before.
C35_AtMostOnce ==
    [][\A p \in Procs :
          (~fsFaulty /\ pc[p] = "take_write" /\ pc'[p] = "service") =>
              \A q \in Procs : msg[p].id \notin tookBy[q]]_vars

\* The invocations whose entry addToQueue has written and no takeFromQueue
\* has taken.
Waiting == {q \in Procs : wrote[q] /\ ~TakenFromQueue(q)}

\* C31: on a healthy file system, a takeFromQueue of the holder that reads
\* queue.json while no write of it is under way returns one of the entries
\* whose enqueue has completed and that were not taken before, whenever
\* there is one; it does not return null and it skips none of them for good.
C31_DequeueReturnsWaiting ==
    [][\A p \in Procs :
          (/\ ~fsFaulty
           /\ QueueAtRest
           /\ pc[p] = "holding"
           /\ pc'[p] \in {"take_trunc", "release"}
           /\ Waiting # {})
              => (pc'[p] = "take_trunc" /\ msg'[p].id \in Waiting)]_vars

\* C39: the step in which getFromCache writes the file back and returns
\* leaves the set of cache entries and the bytes of every entry as they
\* were.
C39_GetLeavesCacheAlone ==
    [][(cget.st = "read" /\ cget'.st = "returned") =>
           /\ Present(cfiles') = Present(cfiles)
           /\ \A k \in Keys : cfiles'[k].data = cfiles[k].data /\ cfiles'[k].mb = cfiles[k].mb]_vars

\* The voice a release call was about.
ReleaseTarget == Target(vcall.voice, vcall.env)

\* C33: an acquirePlaybackLock that found play.lock without a number in it
\* returns true; a reserveVoice with an unparsable marker among the voices
\* returns a voice, and a voice it took from such a marker is reserved for
\* the caller; after getVoiceStatuses, and after releaseVoice on such a
\* voice, the unparsable file is gone.
C33_UnparsableMarkersHeal ==
    /\ \A p \in Procs :
          (startKind[p] = "empty" /\ lockResult[p] # "none") => lockResult[p] = "true"
    /\ (vcall.op = "reserve" /\ \E v \in VoiceSet : vcall.before[v] = Garbled) =>
          /\ vcall.ret \in VoiceSet
          /\ vcall.before[vcall.ret] = Garbled =>
                locks[vcall.ret].pid = ParentPid(vcall.shell)
    /\ vcall.op = "statuses" =>
          \A v \in VoiceSet : vcall.before[v] = Garbled =>
              (vcall.out[v] = Available /\ locks[v] = NoLock)
    /\ (vcall.op = "release" /\ ~Rejected(ReleaseTarget)
           /\ vcall.before[ReleaseTarget] = Garbled) =>
          (vcall.ret = "true" /\ locks[ReleaseTarget] = NoLock)

\* C38: every text the drain loop voiced for an entry, by synthesis, from the
\* cache or through the local fallback, is the text of that entry.
C38_VoicesDequeuedEntry ==
    \A r \in spoke : r.text = MessageText([id |-> r.entry])

\* C32: for every message the drain loop took, textToSpeech is called only
\* after getFromCache missed, and once when it missed; on a miss with a
\* synthesized audio, what is handed to playAudio is that audio and
\* saveToCache has returned by then, and once the loop is through with the
\* message recordUsage has run once; on a hit the bytes getFromCache returned
\* are handed to playAudio and recordUsage does not run.
C32_SynthesisIffMiss ==
    \A i \in 1 .. Len(slog) :
        LET e == slog[i]
        IN  /\ e.synth > 0 => e.look = "miss"
            /\ (e.over /\ e.look = "miss") => e.synth = 1
            /\ (e.look = "miss" /\ e.played # NoAudio) =>
                   (e.played = e.audio /\ e.storedFirst)
            /\ (e.over /\ e.look = "miss" /\ e.audio # NoAudio) => e.usage = 1
            /\ e.look = "hit" => (e.synth = 0 /\ e.usage = 0)
            /\ (e.over /\ e.look = "hit") => (e.played = e.got /\ e.got # NoAudio)

=============================================================================
